---- MODULE Spec2Model ----
(***************************************************************************)
(* Stage coordination and status telemetry of the CodeQL action: the entry *)
(* points init-action.ts, autobuild-action.ts, analyze-action.ts and the   *)
(* older compiled lib/analyze-action.js, each run as a separate process of *)
(* one CI job.  The processes share the Config Store, the job environment  *)
(* and the telemetry sink.                                                  *)
(***************************************************************************)
EXTENDS Integers, Sequences, FiniteSets, TLC

\* Bounds of the model.
MaxLangs == 3
MaxInvocations == 3

Procs == {1, 2}

\* Languages a Config can name, in the order Init resolves them.
LangOrder == <<"java", "go", "python", "cpp">>

\* The language lists of a Config: unique, order-significant, non-empty.
LangLists ==
  {SubSeq(LangOrder, 1, n) : n \in 1..(IF MaxLangs < Len(LangOrder)
                                         THEN MaxLangs ELSE Len(LangOrder))}

Range(f) == {f[i] : i \in DOMAIN f}

\* A Config: its languages and the languages whose query list is empty.
ConfigSet ==
  {c \in {[defined |-> TRUE, languages |-> ls, emptyQueries |-> e] :
            ls \in LangLists, e \in {{}} \cup {{l} : l \in Range(LangOrder)}} :
     c.emptyQueries \subseteq Range(c.languages)}

\* What getConfig yields when no Config was persisted (undefined).
NoConfig == [defined |-> FALSE, languages |-> <<>>, emptyQueries |-> {}]

\* A QueriesStatusReport / upload status report that is still undefined.
NoStats == [defined |-> FALSE, queries |-> FALSE, upload |-> FALSE, failure |-> "none"]
QueryStats(failure) ==
  [defined |-> TRUE, queries |-> TRUE, upload |-> FALSE, failure |-> failure]

\* A unit of stage work, for a language or for the whole stage ("-").
W(kind, language) == <<kind, language>>

Stages == {"init", "autobuild", "analyze", "analyze_lib"}

\* The action name a stage stamps on its reports.
ActionName(stage) ==
  CASE stage = "init" -> "init"
    [] stage = "autobuild" -> "autobuild"
    [] OTHER -> "finish"

NoErr == [kind |-> "none", msg |-> "none", failure |-> "none"]

\* Errors an external collaborator of a stage can raise.
ThrowKinds == {"Error", "UserError"}
StepError(k) == [kind |-> k, msg |-> "StepFailed", failure |-> "none"]

ConfigNotFound == [kind |-> "Error", msg |-> "ConfigNotFound", failure |-> "none"]
BadExpectError == [kind |-> "UserError", msg |-> "BadExpectError", failure |-> "none"]
UndefinedConfigDeref == [kind |-> "TypeError", msg |-> "TypeError", failure |-> "none"]

VARIABLES
  st,          \* st[p]: the stage invocation process p runs
  configStore, \* the Config Store file: NoFile or the JSON document of a Config
  jobEnv,      \* environment variables exported to later steps of the job
  sink,        \* (action, job-run id) pairs whose start the sink has recorded
  nextUuid,    \* the next fresh job-run id
  nInv,        \* invocations started so far
  disk,        \* the runner's free disk space: "enough" or "low"
  call,        \* a call of createStatusReportBase evaluated on its own
  features,    \* a Features object of one process, resolving flags
  uploader     \* a result upload and its processing poll

vars == <<st, configStore, jobEnv, sink, nextUuid, nInv, disk, call, features, uploader>>

Idle ==
  [stage |-> "none", pc |-> "idle",
   expectError |-> "false", testMode |-> FALSE,
   skipQueries |-> "unread", upload |-> "unread", waitForProcessing |-> "unread",
   setupPython |-> "unread", pythonFlag |-> "unread",
   env |-> [uuid |-> 0, didAutobuildGo |-> FALSE],
   startRet |-> "unset",
   err |-> NoErr, thrownAt |-> "none",
   config |-> NoConfig, configRead |-> FALSE,
   languages |-> <<>>, languagesDefined |-> FALSE,
   currentLanguage |-> "none", idx |-> 1,
   work |-> {},
   exported |-> {}, outputs |-> {},
   reports |-> <<>>,
   setFailedCalls |-> <<>>,
   runStats |-> NoStats, uploadResult |-> FALSE,
   dbCreationTimings |-> FALSE, didUploadTrapCaches |-> FALSE,
   trapCacheUploadTime |-> FALSE,
   didComplete |-> FALSE, checkedTimeout |-> FALSE]

\* The first step of a stage's run().
FirstPc(stage) == IF stage = "init" THEN "init_setup" ELSE "starting"

\* A process that would not inherit the job environment.
NewInvocationWithoutEnv(stage, ee, tm, env) ==
  [Idle EXCEPT !.stage = stage, !.pc = FirstPc(stage),
               !.expectError = ee, !.testMode = tm]

NewInvocation(stage, ee, tm, env) ==
  [Idle EXCEPT !.stage = stage, !.pc = FirstPc(stage),
               !.expectError = ee, !.testMode = tm, !.env = env]

\* The inputs that are read more than once in a run are fixed when it starts.
ExpectErrorValues(stage) ==
  IF stage = "analyze" THEN {"true", "false", "unset"} ELSE {"false"}
TestModes(stage) == IF stage = "analyze" THEN BOOLEAN ELSE {FALSE}

----------------------------------------------------------------------------
(* status-report.ts and config-utils.ts *)

\* getActionsStatus(error, otherFailureCause)
getActionsStatus(error, otherFailureCause) ==
  IF error # NoErr \/ otherFailureCause # "none"
    THEN IF error.kind = "UserError" THEN "user-error" ELSE "failure"
    ELSE "success"

\* checkDiskUsage(logger): the free disk space it returns.
checkDiskUsage == disk

\* lib/analyze-action.js builds its reports without a disk usage.
NoDiskUsage == "none"

\* createStatusReportBase(actionName, status, startedAt, diskUsage, cause, exception)
createStatusReportBase(actionName, status, diskUsage, env, error) ==
  [action |-> actionName, status |-> status,
   disk |-> diskUsage,
   cause |-> error.msg, exception |-> error # NoErr,
   job_run_uuid |-> env.uuid,
   failure_language |-> "none", languages |-> <<>>,
   queryStats |-> FALSE, uploadStats |-> FALSE, dbTimings |-> FALSE,
   trapUpload |-> FALSE, withConfig |-> FALSE,
   delivered |-> FALSE]

\* The sink's answer to a delivered starting report: FALSE is the duplicate signal.
SinkAccepts(report) == <<report.action, report.job_run_uuid>> \notin sink

\* sendStatusReport(report): the value it returns for a starting report.  A
\* delivery failure is swallowed and never stops the stage.
sendStatusReport(report, delivered) ==
  IF delivered THEN SinkAccepts(report) ELSE TRUE

\* The Config Store file when no Config was persisted.
NoFile == [exists |-> FALSE, languages |-> <<>>, queries |-> <<>>]

\* The query list of a language in the JSON document.
SomeQueries == <<"query">>
NoQueries == <<>>

\* saveConfig(config): the JSON document written to the Config Store: the
\* languages as an array, the queries as an object keyed by language.
saveConfig(config) ==
  [exists |-> TRUE,
   languages |-> config.languages,
   queries |-> [l \in Range(config.languages) |->
                  IF l \in config.emptyQueries THEN NoQueries ELSE SomeQueries]]

\* A loader that would read the languages and leave the queries out.
loadLanguagesOnly(file) ==
  IF file.exists
    THEN [defined |-> TRUE, languages |-> file.languages, emptyQueries |-> {}]
    ELSE NoConfig

\* The Config parsed from the JSON document, or undefined for a missing file.
loadConfig(file) ==
  IF file.exists
    THEN [defined |-> TRUE,
          languages |-> file.languages,
          emptyQueries |-> {l \in DOMAIN file.queries : file.queries[l] = NoQueries}]
    ELSE NoConfig

\* getConfig(tempDir): the persisted Config, or undefined when Init never ran.
getConfig == loadConfig(configStore)

----------------------------------------------------------------------------
(* Helpers of the transcription *)

Set(p, r) == st' = [st EXCEPT ![p] = r]

\* core.setFailed(message)
setFailed(s, prefix, msg) ==
  [s EXCEPT !.setFailedCalls = Append(@, [prefix |-> prefix, msg |-> msg])]

\* A reporter whose delivery failure would mark the job failed.
SentOrFailed(s, report, delivered) ==
  [(IF delivered THEN s ELSE setFailed(s, "", "DeliveryFailed"))
     EXCEPT !.reports = Append(@, [report EXCEPT !.delivered = delivered])]

\* A report handed to sendStatusReport.
Sent(s, report, delivered) ==
  [s EXCEPT !.reports = Append(@, [report EXCEPT !.delivered = delivered])]

\* A throw out of the step at s.pc, caught by the handler at catchPc.
Throw(s, e, catchPc) == [s EXCEPT !.err = e, !.thrownAt = s.pc, !.pc = catchPc]

----------------------------------------------------------------------------
(* Job *)

\* No call of createStatusReportBase is evaluated on its own.
NoCall == [fn |-> "none"]

\* No Features object and no upload are followed on their own.
NoFeatures == [object |-> "none"]
NoUploader == [phase |-> "none"]

\* The job before its first step.
JobStart ==
  /\ st = [p \in Procs |-> Idle]
  /\ configStore = NoFile
  /\ jobEnv = [uuid |-> 0, didAutobuildGo |-> FALSE]
  /\ sink = {}
  /\ nextUuid = 1
  /\ nInv = 0
  /\ call = NoCall
  /\ features = NoFeatures
  /\ uploader = NoUploader

Init == JobStart /\ disk = "enough"

\* The place of a stage in the pipeline.
Rank(stage) ==
  CASE stage = "none" -> 0
    [] stage = "init" -> 1
    [] stage = "autobuild" -> 2
    [] OTHER -> 3

\* A step of the job starts a stage as a new process, which inherits the
\* job environment.  The steps of a job are in pipeline order; a stage can be
\* left out or repeated.
Start(p) ==
  /\ st[p].pc \in {"idle", "done"}
  /\ nInv < MaxInvocations
  /\ \E stage \in {g \in Stages : Rank(g) >= Rank(st[p].stage)} :
       \E ee \in ExpectErrorValues(stage), tm \in TestModes(stage) :
         Set(p, NewInvocation(stage, ee, tm, jobEnv))
  /\ nInv' = nInv + 1
  /\ UNCHANGED <<configStore, jobEnv, sink, nextUuid, disk, call, features, uploader>>

\* The starting report, first statement of run()'s try block; a FALSE answer
\* returns from run().
WhereAfterStart(stage) ==
  CASE stage = "init" -> "init_tools"
    [] stage = "autobuild" -> "autobuild_config"
    [] stage = "analyze" -> "analyze_config"
    [] OTHER -> "lib_config"

\* A run() that would go on whatever the starting report's answer.
AlwaysProceed(ret, stage) == WhereAfterStart(stage)

\* A run() that would read the starting report's answer the wrong way round.
ProceedWhenNotStarted(ret, stage) ==
  IF ret THEN "returned" ELSE WhereAfterStart(stage)

ReturnWhenNotStarted(ret, stage) ==
  IF ret THEN WhereAfterStart(stage) ELSE "returned"

\* The .ts stages pass checkDiskUsage's result to every report they build.
HasDiskCheck(stage) == stage # "analyze_lib"
DiskUsage(stage) == IF HasDiskCheck(stage) THEN checkDiskUsage ELSE NoDiskUsage

\* The handler of the try block the starting report is built in.
CatchOf(stage) ==
  CASE stage = "init" -> "init_catch1"
    [] stage = "autobuild" -> "autobuild_catch"
    [] stage = "analyze" -> "analyze_catch"
    [] OTHER -> "lib_catch"

\* On a runner low on disk the check made for the starting report either
\* returns the low usage or raises; nothing else in run() looks at its result.
SendStarting(p) ==
  LET s == st[p]
      report == createStatusReportBase(ActionName(s.stage), "starting",
                                       DiskUsage(s.stage), s.env, NoErr)
  IN /\ s.pc = "starting"
     /\ \/ /\ HasDiskCheck(s.stage) /\ checkDiskUsage = "low"
           /\ \E k \in ThrowKinds : Set(p, Throw(s, StepError(k), CatchOf(s.stage)))
           /\ UNCHANGED sink
        \/ \E delivered \in BOOLEAN :
             LET ret == sendStatusReport(report, delivered)
             IN /\ Set(p, [Sent(s, report, delivered) EXCEPT
                             !.startRet = IF ret THEN "true" ELSE "false",
                             !.pc = ReturnWhenNotStarted(ret, s.stage)])
                /\ sink' = IF delivered
                             THEN sink \cup {<<report.action, report.job_run_uuid>>}
                             ELSE sink
     /\ UNCHANGED <<configStore, jobEnv, nextUuid, nInv, disk, call, features, uploader>>

\* runWrapper: a rejected run() marks the job failed.
WrapperPrefix(stage) ==
  CASE stage = "init" -> "init action failed: "
    [] stage = "autobuild" -> "autobuild action failed. "
    [] OTHER -> "analyze action failed: "

\* Only init-action.ts and analyze-action.ts await checkForTimeout().
HasTimeoutCheck(stage) == stage \in {"init", "analyze"}

runWrapper(p) ==
  LET s == st[p]
      t == [s EXCEPT !.pc = "done", !.checkedTimeout = HasTimeoutCheck(s.stage)]
  IN /\ s.pc \in {"returned", "rejected"}
     /\ Set(p, IF s.pc = "rejected"
                 THEN setFailed(t, WrapperPrefix(s.stage), s.err.msg)
                 ELSE t)
     /\ UNCHANGED <<configStore, jobEnv, sink, nextUuid, nInv, disk, call, features, uploader>>

----------------------------------------------------------------------------
(* init-action.ts *)

\* run(), up to the try block: inputs, platform version, feature flags, and
\* the job-run id, which is generated and exported here.
InitSetup(p) ==
  LET s == st[p]
  IN /\ s.pc = "init_setup"
     /\ \/ /\ \E k \in ThrowKinds : Set(p, Throw(s, StepError(k), "rejected"))
           /\ UNCHANGED <<jobEnv, nextUuid>>
        \/ /\ Set(p, [s EXCEPT !.env.uuid = nextUuid,
                               !.exported = @ \cup {"JOB_RUN_UUID"},
                               !.pc = "starting"])
           /\ jobEnv' = [jobEnv EXCEPT !.uuid = nextUuid]
           /\ nextUuid' = nextUuid + 1
     /\ UNCHANGED <<configStore, sink, nInv, disk, call, features, uploader>>

\* getDefaultCliVersion, initCodeQL, validateWorkflow
InitTools(p) ==
  LET s == st[p]
  IN /\ s.pc = "init_tools"
     /\ \/ \E k \in ThrowKinds : Set(p, Throw(s, StepError(k), "init_catch1"))
        \/ Set(p, [s EXCEPT !.work = @ \cup {W("initCodeQL", "-")}, !.pc = "init_config"])
     /\ UNCHANGED <<configStore, jobEnv, sink, nextUuid, nInv, disk, call, features, uploader>>

\* An initConfig that could resolve to undefined without throwing.
InitConfigMayBeUndefined(p) ==
  LET s == st[p]
  IN /\ s.pc = "init_config"
     /\ \/ /\ \E k \in ThrowKinds : Set(p, Throw(s, StepError(k), "init_catch1"))
           /\ UNCHANGED configStore
        \/ \E c \in ConfigSet \cup {NoConfig} :
             /\ Set(p, [s EXCEPT !.config = c, !.work = @ \cup {W("initConfig", "-")},
                                 !.pc = "init_python"])
             /\ configStore' = IF c.defined THEN saveConfig(c) ELSE configStore
     /\ UNCHANGED <<jobEnv, sink, nextUuid, nInv, disk, call, features, uploader>>

\* initConfig resolves the Config and persists it to the Config Store.
InitConfig(p) ==
  LET s == st[p]
  IN /\ s.pc = "init_config"
     /\ \/ /\ \E k \in ThrowKinds : Set(p, Throw(s, StepError(k), "init_catch1"))
           /\ UNCHANGED configStore
        \/ \E c \in ConfigSet :
             /\ Set(p, [s EXCEPT !.config = c, !.work = @ \cup {W("initConfig", "-")},
                                 !.pc = "init_python"])
             /\ configStore' = saveConfig(c)
     /\ UNCHANGED <<jobEnv, sink, nextUuid, nInv, disk, call, features, uploader>>

\* An installation whose failure would be thrown on.
PythonDepsFailureRethrown(s, installed) ==
  IF installed
    THEN [s EXCEPT !.work = @ \cup {W("installPythonDeps", "python")},
                   !.pc = "init_phase2"]
    ELSE Throw([s EXCEPT !.work = @ \cup {W("installPythonDepsFailed", "python")}],
               StepError("Error"), "init_catch1")

\* installPythonDeps in its own try/catch: a failure is logged as a warning
\* and run() goes on.
PythonDepsAttempted(s, installed) ==
  [s EXCEPT !.work = @ \cup {W(IF installed THEN "installPythonDeps"
                                            ELSE "installPythonDepsFailed", "python")},
            !.pc = "init_phase2"]

\* Python dependency installation: attempted only for python with
\* setup-python-dependencies "true" and the disabling flag off; its failure
\* is logged as a warning.
InitPythonDeps(p) ==
  LET s == st[p]
      next == [s EXCEPT !.pc = "init_phase2"]
  IN /\ s.pc = "init_python"
     /\ IF "python" \in Range(s.config.languages)
          THEN \E setup \in {"true", "false", "throws"} :
                 CASE setup = "throws" ->
                        \E k \in ThrowKinds : Set(p, Throw(s, StepError(k), "init_catch1"))
                   [] setup = "false" -> Set(p, [next EXCEPT !.setupPython = setup])
                   [] OTHER ->
                        \E flag \in {"on", "off", "throws"} :
                          LET t == [s EXCEPT !.setupPython = setup]
                          IN CASE flag = "throws" ->
                                    \E k \in ThrowKinds :
                                      Set(p, Throw(t, StepError(k), "init_catch1"))
                               [] flag = "on" ->
                                    Set(p, [t EXCEPT !.pythonFlag = flag,
                                                     !.pc = "init_phase2"])
                               [] OTHER ->
                                    \E installed \in BOOLEAN :
                                      Set(p, PythonDepsAttempted(
                                               [t EXCEPT !.pythonFlag = flag], installed))
          ELSE Set(p, next)
     /\ UNCHANGED <<configStore, jobEnv, sink, nextUuid, nInv, disk, call, features, uploader>>

\* The status of the first catch block's report.
InitFirstPhaseStatus(error) ==
  IF error.kind = "UserError" THEN "user-error" ELSE "aborted"

\* A first catch block without its return statement.
FirstCatchFallsThrough == "init_phase2"

\* The first catch block ends with a return.
FirstCatchReturns == "returned"

InitCatch1(p) ==
  LET s == st[p]
      report == createStatusReportBase("init", InitFirstPhaseStatus(s.err), checkDiskUsage,
                                       s.env, s.err)
  IN /\ s.pc = "init_catch1"
     /\ \E delivered \in BOOLEAN :
          Set(p, [Sent(setFailed(s, "", s.err.msg), report, delivered)
                    EXCEPT !.pc = FirstCatchReturns])
     /\ UNCHANGED <<configStore, jobEnv, sink, nextUuid, nInv, disk, call, features, uploader>>

\* What the second try block finds on the runner: GOFLAGS set, a statically
\* linked go binary, the three feature flags, a CLI version in the Kotlin
\* limit range, the Lombok variable already set, a tracer configuration.
RunnerProfiles ==
  {[goFlags |-> FALSE, goWrapper |-> FALSE, kotlinFlag |-> FALSE, kotlinLimit |-> FALSE,
    lombokSet |-> FALSE, pythonFlag |-> FALSE, tracer |-> TRUE],
   [goFlags |-> TRUE, goWrapper |-> TRUE, kotlinFlag |-> TRUE, kotlinLimit |-> TRUE,
    lombokSet |-> FALSE, pythonFlag |-> TRUE, tracer |-> TRUE],
   [goFlags |-> FALSE, goWrapper |-> FALSE, kotlinFlag |-> TRUE, kotlinLimit |-> FALSE,
    lombokSet |-> TRUE, pythonFlag |-> FALSE, tracer |-> FALSE]}

Opt(cond, name) == IF cond THEN <<name>> ELSE <<>>

\* The variables the second try block exports before runInit, in code order.
ExportsBeforeRunInit(config, r) ==
  Opt(r.goFlags, "GOFLAGS")
    \o Opt("go" \in Range(config.languages) /\ r.goWrapper, "GO_BINARY_LOCATION")
    \o <<"CODEQL_RAM", "CODEQL_THREADS">>
    \o Opt(r.kotlinFlag, "CODEQL_EXTRACTOR_JAVA_AGENT_DISABLE_KOTLIN")
    \o Opt(r.kotlinLimit, "CODEQL_EXTRACTOR_KOTLIN_OVERRIDE_MAXIMUM_VERSION_LIMIT")
    \o Opt("java" \in Range(config.languages) /\ ~r.lombokSet,
           "CODEQL_EXTRACTOR_JAVA_RUN_ANNOTATION_PROCESSORS")
    \o Opt(r.pythonFlag, "CODEQL_EXTRACTOR_PYTHON_DISABLE_LIBRARY_EXTRACTION")

\* The variables of tracerConfig.env, exported after runInit.
TracerExports(r) == IF r.tracer THEN {"CODEQL_TRACER"} ELSE {}

\* The second try block: environment exports, runInit, the codeql-path
\* output.  An error stops it after some of the exports.
InitPhase2(p) ==
  LET s == st[p]
  IN /\ s.pc = "init_phase2"
     /\ \E r \in RunnerProfiles :
          LET before == ExportsBeforeRunInit(s.config, r)
          IN \/ \E k \in ThrowKinds, n \in 0..Len(before) :
                  Set(p, Throw([s EXCEPT !.exported =
                                  @ \cup Range(SubSeq(before, 1, n))],
                               StepError(k), "init_catch2"))
             \/ Set(p, [s EXCEPT !.exported = @ \cup Range(before) \cup TracerExports(r),
                                 !.work = @ \cup {W("runInit", "-")},
                                 !.outputs = @ \cup {"codeql-path"},
                                 !.pc = "init_completed"])
     /\ UNCHANGED <<configStore, jobEnv, sink, nextUuid, nInv, disk, call, features, uploader>>

\* sendCompletedStatusReport of init-action.ts
initSendCompletedStatusReport(s, error) ==
  LET base == createStatusReportBase("init", getActionsStatus(error, "none"),
                                     checkDiskUsage, s.env, error)
  IN IF s.config.defined
       THEN [base EXCEPT !.withConfig = TRUE, !.languages = s.config.languages]
       ELSE base

InitCatch2(p) ==
  LET s == st[p]
  IN /\ s.pc = "init_catch2"
     /\ \E delivered \in BOOLEAN :
          Set(p, [Sent(setFailed(s, "", s.err.msg),
                       initSendCompletedStatusReport(s, s.err), delivered)
                    EXCEPT !.pc = "returned"])
     /\ UNCHANGED <<configStore, jobEnv, sink, nextUuid, nInv, disk, call, features, uploader>>

InitCompleted(p) ==
  LET s == st[p]
  IN /\ s.pc = "init_completed"
     /\ \E delivered \in BOOLEAN :
          Set(p, [Sent(s, initSendCompletedStatusReport(s, NoErr), delivered)
                    EXCEPT !.pc = "returned"])
     /\ UNCHANGED <<configStore, jobEnv, sink, nextUuid, nInv, disk, call, features, uploader>>

InitStage(p) ==
  \/ InitSetup(p)
  \/ InitTools(p)
  \/ InitConfig(p)
  \/ InitPythonDeps(p)
  \/ InitCatch1(p)
  \/ InitPhase2(p)
  \/ InitCatch2(p)
  \/ InitCompleted(p)

----------------------------------------------------------------------------
(* autobuild-action.ts *)

\* An Autobuild that would resolve the Config again and persist it.
AutobuildRederivesConfig(p) ==
  LET s == st[p]
  IN /\ s.pc = "autobuild_config"
     /\ \E c \in ConfigSet :
          /\ Set(p, [s EXCEPT !.config = c, !.configRead = TRUE,
                              !.pc = "autobuild_languages"])
          /\ configStore' = saveConfig(c)
     /\ UNCHANGED <<jobEnv, sink, nextUuid, nInv, disk, call, features, uploader>>

\* getGitHubVersion, checkGitHubVersionInRange, getConfig and the check that
\* the Config exists.
AutobuildLoadConfig(p) ==
  LET s == st[p]
      config == getConfig
  IN /\ s.pc = "autobuild_config"
     /\ \/ \E k \in ThrowKinds : Set(p, Throw(s, StepError(k), "autobuild_catch"))
        \/ IF ~config.defined
             THEN Set(p, Throw([s EXCEPT !.configRead = TRUE], ConfigNotFound,
                               "autobuild_catch"))
             ELSE Set(p, [s EXCEPT !.config = config, !.configRead = TRUE,
                                   !.pc = "autobuild_languages"])
     /\ UNCHANGED <<configStore, jobEnv, sink, nextUuid, nInv, disk, call, features, uploader>>

\* determineAutobuildLanguages yields undefined or some of the Config's
\* languages, in Config order.
AutobuildDetermine(p) ==
  LET s == st[p]
  IN /\ s.pc = "autobuild_languages"
     /\ \/ \E k \in ThrowKinds : Set(p, Throw(s, StepError(k), "autobuild_catch"))
        \/ Set(p, [s EXCEPT !.pc = "autobuild_completed"])
        \/ \E n \in 0..Len(s.config.languages) :
             Set(p, [s EXCEPT !.languages = SubSeq(s.config.languages, 1, n),
                              !.languagesDefined = TRUE, !.idx = 1,
                              !.pc = IF n = 0 THEN "autobuild_completed"
                                              ELSE "autobuild_build"])
     /\ UNCHANGED <<configStore, jobEnv, sink, nextUuid, nInv, disk, call, features, uploader>>

\* runAutobuild(language): a successful Go build exports DID_AUTOBUILD_GOLANG.
DidAutobuildGo(language, before) == before \/ language = "go"

\* A loop that would record the current language once its build returned.
AutobuildBuildRecordedAfter(p) ==
  LET s == st[p]
      language == s.languages[s.idx]
  IN /\ s.pc = "autobuild_build"
     /\ \/ /\ \E k \in ThrowKinds : Set(p, Throw(s, StepError(k), "autobuild_catch"))
           /\ UNCHANGED jobEnv
        \/ /\ Set(p, [s EXCEPT !.currentLanguage = language,
                               !.work = @ \cup {W("autobuild", language)},
                               !.env.didAutobuildGo = DidAutobuildGo(language, @),
                               !.idx = @ + 1,
                               !.pc = IF s.idx = Len(s.languages)
                                        THEN "autobuild_completed"
                                        ELSE "autobuild_build"])
           /\ jobEnv' = [jobEnv EXCEPT !.didAutobuildGo = DidAutobuildGo(language, @)]
     /\ UNCHANGED <<configStore, sink, nextUuid, nInv, disk, call, features, uploader>>

\* One iteration of the loop over languages.
AutobuildBuild(p) ==
  LET s == st[p]
      language == s.languages[s.idx]
      t == [s EXCEPT !.currentLanguage = language]
  IN /\ s.pc = "autobuild_build"
     /\ \/ /\ \E k \in ThrowKinds : Set(p, Throw(t, StepError(k), "autobuild_catch"))
           /\ UNCHANGED jobEnv
        \/ /\ Set(p, [t EXCEPT !.work = @ \cup {W("autobuild", language)},
                               !.env.didAutobuildGo = DidAutobuildGo(language, @),
                               !.idx = @ + 1,
                               !.pc = IF s.idx = Len(s.languages)
                                        THEN "autobuild_completed"
                                        ELSE "autobuild_build"])
           /\ jobEnv' = [jobEnv EXCEPT !.didAutobuildGo = DidAutobuildGo(language, @)]
     /\ UNCHANGED <<configStore, sink, nextUuid, nInv, disk, call, features, uploader>>

\* sendCompletedStatusReport of autobuild-action.ts
autobuildSendCompletedStatusReport(s, allLanguages, failingLanguage, cause) ==
  [createStatusReportBase("autobuild", getActionsStatus(cause, failingLanguage),
                          checkDiskUsage, s.env, cause)
     EXCEPT !.languages = allLanguages, !.failure_language = failingLanguage]

AutobuildPrefix == "We were unable to automatically build your code. "

AutobuildCatch(p) ==
  LET s == st[p]
  IN /\ s.pc = "autobuild_catch"
     /\ \E delivered \in BOOLEAN :
          Set(p, [Sent(setFailed(s, AutobuildPrefix, s.err.msg),
                       autobuildSendCompletedStatusReport(s, s.languages,
                                                          s.currentLanguage, s.err),
                       delivered)
                    EXCEPT !.pc = "returned"])
     /\ UNCHANGED <<configStore, jobEnv, sink, nextUuid, nInv, disk, call, features, uploader>>

AutobuildCompleted(p) ==
  LET s == st[p]
  IN /\ s.pc = "autobuild_completed"
     /\ \E delivered \in BOOLEAN :
          Set(p, [Sent(s, autobuildSendCompletedStatusReport(s, s.languages, "none", NoErr),
                       delivered)
                    EXCEPT !.pc = "returned"])
     /\ UNCHANGED <<configStore, jobEnv, sink, nextUuid, nInv, disk, call, features, uploader>>

AutobuildStage(p) ==
  \/ AutobuildLoadConfig(p)
  \/ AutobuildDetermine(p)
  \/ AutobuildBuild(p)
  \/ AutobuildCatch(p)
  \/ AutobuildCompleted(p)

----------------------------------------------------------------------------
(* analyze-action.ts *)

\* A check that would object to expect-error "true" only.
hasTrueExpectErrorInput(s) == s.expectError = "true" /\ ~s.testMode

\* hasBadExpectErrorInput()
hasBadExpectErrorInput(s) == s.expectError # "false" /\ ~s.testMode

\* getConfig, the check that the Config exists, and the expect-error check.
AnalyzeLoadConfig(p) ==
  LET s == st[p]
      config == getConfig
      t == [s EXCEPT !.config = config, !.configRead = TRUE]
  IN /\ s.pc = "analyze_config"
     /\ \/ \E k \in ThrowKinds : Set(p, Throw(s, StepError(k), "analyze_catch"))
        \/ IF ~config.defined
             THEN Set(p, Throw(t, ConfigNotFound, "analyze_catch"))
             ELSE IF hasBadExpectErrorInput(s)
                    THEN Set(p, Throw(t, BadExpectError, "analyze_catch"))
                    ELSE Set(p, [t EXCEPT !.pc = "analyze_setup"])
     /\ UNCHANGED <<configStore, jobEnv, sink, nextUuid, nInv, disk, call, features, uploader>>

\* Inputs, repository, platform version, feature flags, the Go wrapper check.
AnalyzeSetup(p) ==
  LET s == st[p]
  IN /\ s.pc = "analyze_setup"
     /\ \/ \E k \in ThrowKinds : Set(p, Throw(s, StepError(k), "analyze_catch"))
        \/ Set(p, [s EXCEPT !.pc = "analyze_go"])
     /\ UNCHANGED <<configStore, jobEnv, sink, nextUuid, nInv, disk, call, features, uploader>>

\* A check that would not look at DID_AUTOBUILD_GOLANG.
ShouldAutobuildGoAgain(config, didAutobuildGo, dbFinalized, extractionOutput) ==
  /\ "go" \in Range(config.languages)
  /\ ~dbFinalized
  /\ ~extractionOutput

\* runAutobuildIfLegacyGoWorkflow: whether the Go autobuild is run.
ShouldAutobuildGo(config, didAutobuildGo, dbFinalized, extractionOutput) ==
  /\ "go" \in Range(config.languages)
  /\ ~didAutobuildGo
  /\ ~dbFinalized
  /\ ~extractionOutput

AnalyzeGoAutobuild(p) ==
  LET s == st[p]
      next == [s EXCEPT !.pc = "analyze_finalize"]
  IN /\ s.pc = "analyze_go"
     /\ \E dbFinalized \in BOOLEAN, extractionOutput \in BOOLEAN :
          IF ShouldAutobuildGo(s.config, s.env.didAutobuildGo, dbFinalized, extractionOutput)
            THEN \/ /\ \E k \in ThrowKinds :
                         Set(p, Throw(s, StepError(k), "analyze_catch"))
                    /\ UNCHANGED jobEnv
                 \/ /\ Set(p, [next EXCEPT !.work = @ \cup {W("autobuild", "go")},
                                          !.env.didAutobuildGo = DidAutobuildGo("go", @)])
                    /\ jobEnv' = [jobEnv EXCEPT
                                    !.didAutobuildGo = DidAutobuildGo("go", @)]
            ELSE /\ Set(p, next)
                 /\ UNCHANGED jobEnv
     /\ UNCHANGED <<configStore, sink, nextUuid, nInv, disk, call, features, uploader>>

\* runFinalize: finalizes the database of every language, or throws.
AnalyzeFinalize(p) ==
  LET s == st[p]
  IN /\ s.pc = "analyze_finalize"
     /\ \/ \E k \in ThrowKinds : Set(p, Throw(s, StepError(k), "analyze_catch"))
        \/ Set(p, [s EXCEPT !.dbCreationTimings = TRUE,
                            !.work = @ \cup {W("finalize", l) : l \in Range(s.config.languages)},
                            !.pc = "analyze_queries"])
     /\ UNCHANGED <<configStore, jobEnv, sink, nextUuid, nInv, disk, call, features, uploader>>

\* The CodeQLAnalysisError runQueries throws for a language: it carries the
\* queries status report with analyze_failure_language.
CodeQLAnalysisError(language) ==
  [kind |-> "CodeQLAnalysisError", msg |-> "StepFailed", failure |-> language]

\* runQueries unless skip-queries is "true".
AnalyzeQueries(p) ==
  LET s == st[p]
      languages == s.config.languages
  IN /\ s.pc = "analyze_queries"
     /\ \E skip \in {"true", "false"} :
          LET t == [s EXCEPT !.skipQueries = skip]
          IN IF skip = "true"
               THEN Set(p, [t EXCEPT !.pc = "analyze_cleanup"])
               ELSE \/ \E k \in ThrowKinds :
                         Set(p, Throw(t, StepError(k), "analyze_catch"))
                    \/ \E i \in 1..Len(languages) :
                         Set(p, Throw([t EXCEPT !.work = @ \cup
                                         {W("queries", languages[j]) : j \in 1..(i - 1)}],
                                      CodeQLAnalysisError(languages[i]), "analyze_catch"))
                    \/ Set(p, [t EXCEPT !.runStats = QueryStats("none"),
                                        !.work = @ \cup
                                          {W("queries", l) : l \in Range(languages)},
                                        !.pc = "analyze_cleanup"])
     /\ UNCHANGED <<configStore, jobEnv, sink, nextUuid, nInv, disk, call, features, uploader>>

\* runCleanup unless cleanup-level is "none".
AnalyzeCleanup(p) ==
  LET s == st[p]
  IN /\ s.pc = "analyze_cleanup"
     /\ \/ \E k \in ThrowKinds : Set(p, Throw(s, StepError(k), "analyze_catch"))
        \/ Set(p, [s EXCEPT !.pc = "analyze_upload"])
     /\ UNCHANGED <<configStore, jobEnv, sink, nextUuid, nInv, disk, call, features, uploader>>

\* An upload that would not look at what the queries returned.
ShouldUploadWhenAsked(runStats, uploadValue) == uploadValue = "always"

\* Whether the results are uploaded.
ShouldUpload(runStats, uploadValue) == runStats.defined /\ uploadValue = "always"

\* The db-locations and sarif-output outputs, then uploadFromActions and the
\* sarif-id output.
AnalyzeUpload(p) ==
  LET s == st[p]
  IN /\ s.pc = "analyze_upload"
     /\ \E uploadValue \in {"always", "never"} :
          LET r == [s EXCEPT !.upload = uploadValue,
                             !.outputs = @ \cup {"db-locations", "sarif-output"}]
              t == [r EXCEPT !.pc = "analyze_databases"]
          IN IF ShouldUpload(s.runStats, uploadValue)
               THEN \/ \E k \in ThrowKinds :
                         Set(p, Throw(r, StepError(k), "analyze_catch"))
                    \/ Set(p, [t EXCEPT !.uploadResult = TRUE,
                                        !.outputs = @ \cup {"sarif-id"},
                                        !.work = @ \cup {W("upload", "-")}])
               ELSE Set(p, t)
     /\ UNCHANGED <<configStore, jobEnv, sink, nextUuid, nInv, disk, call, features, uploader>>

\* An uploadDatabases that is started and not awaited: the run goes on
\* while the database upload is still in flight.
AnalyzeUploadDatabasesNotAwaited(p) ==
  LET s == st[p]
  IN /\ s.pc = "analyze_databases"
     /\ Set(p, [s EXCEPT !.pc = "analyze_trap"])
     /\ UNCHANGED <<configStore, jobEnv, sink, nextUuid, nInv, disk, call, features, uploader>>

\* uploadDatabases
AnalyzeUploadDatabases(p) ==
  LET s == st[p]
  IN /\ s.pc = "analyze_databases"
     /\ \/ \E k \in ThrowKinds : Set(p, Throw(s, StepError(k), "analyze_catch"))
        \/ Set(p, [s EXCEPT !.work = @ \cup {W("uploadDatabases", "-")},
                            !.pc = "analyze_trap"])
     /\ UNCHANGED <<configStore, jobEnv, sink, nextUuid, nInv, disk, call, features, uploader>>

\* getCodeQL and uploadTrapCaches
AnalyzeTrapCaches(p) ==
  LET s == st[p]
  IN /\ s.pc = "analyze_trap"
     /\ \/ \E k \in ThrowKinds : Set(p, Throw(s, StepError(k), "analyze_catch"))
        \/ \E did \in BOOLEAN :
             Set(p, [s EXCEPT !.didUploadTrapCaches = did,
                              !.trapCacheUploadTime = TRUE,
                              !.work = @ \cup {W("uploadTrapCaches", "-")},
                              !.pc = "analyze_wait"])
     /\ UNCHANGED <<configStore, jobEnv, sink, nextUuid, nInv, disk, call, features, uploader>>

\* Whether waitForProcessing is called.
ShouldWait(testMode, uploadResult, waitInput) ==
  ~testMode /\ uploadResult /\ waitInput = "true"

\* The end of the try block: an error-free run with expect-error "true" is
\* marked failed; ANALYZE_DID_COMPLETE_SUCCESSFULLY is exported.
AnalyzeTryEnd(s) ==
  [(IF s.expectError = "true"
      THEN setFailed(s, "", "ExpectErrorNotThrown")
      ELSE s)
     EXCEPT !.didComplete = TRUE, !.pc = "analyze_completed"]

\* waitForProcessing, then the end of the try block.
AnalyzeWait(p) ==
  LET s == st[p]
  IN /\ s.pc = "analyze_wait"
     /\ IF s.testMode \/ ~s.uploadResult
          THEN Set(p, AnalyzeTryEnd(s))
          ELSE \E waitInput \in {"true", "false"} :
                 LET t == [s EXCEPT !.waitForProcessing = waitInput]
                 IN IF ShouldWait(s.testMode, s.uploadResult, waitInput)
                      THEN \/ \E k \in ThrowKinds :
                                Set(p, Throw(t, StepError(k), "analyze_catch"))
                           \/ Set(p, AnalyzeTryEnd(
                                       [t EXCEPT !.work = @ \cup {W("waitForProcessing", "-")}]))
                      ELSE Set(p, AnalyzeTryEnd(t))
     /\ UNCHANGED <<configStore, jobEnv, sink, nextUuid, nInv, disk, call, features, uploader>>

\* sendStatusReport of analyze-action.ts
analyzeSendStatusReport(s, stats, error) ==
  [createStatusReportBase("finish", getActionsStatus(error, stats.failure),
                          checkDiskUsage, s.env, error)
     EXCEPT !.withConfig = s.config.defined,
            !.queryStats = stats.queries,
            !.uploadStats = stats.upload,
            !.failure_language = stats.failure,
            !.dbTimings = s.dbCreationTimings,
            !.trapUpload = s.config.defined /\ s.didUploadTrapCaches]

\* The stats the catch block passes: those of a CodeQLAnalysisError, else none.
AnalyzeCatchStats(s, error) ==
  IF error.kind = "CodeQLAnalysisError" THEN QueryStats(error.failure) ELSE NoStats

\* A catch block that would mark the job failed whatever the inputs.
AnalyzeCatchAlwaysSetsFailed(s) == TRUE

\* Whether the catch block marks the job failed.
AnalyzeCatchSetsFailed(s) == s.expectError # "true" \/ hasBadExpectErrorInput(s)

AnalyzeCatch(p) ==
  LET s == st[p]
      t == IF AnalyzeCatchSetsFailed(s) THEN setFailed(s, "", s.err.msg) ELSE s
  IN /\ s.pc = "analyze_catch"
     /\ \E delivered \in BOOLEAN :
          Set(p, [Sent(t, analyzeSendStatusReport(s, AnalyzeCatchStats(s, s.err), s.err),
                       delivered)
                    EXCEPT !.pc = "returned"])
     /\ UNCHANGED <<configStore, jobEnv, sink, nextUuid, nInv, disk, call, features, uploader>>

\* The stats of the report after an error-free run.
AnalyzeCompletedStats(s) ==
  IF s.runStats.defined /\ s.uploadResult
    THEN [s.runStats EXCEPT !.upload = TRUE]
    ELSE IF s.runStats.defined THEN s.runStats ELSE NoStats

AnalyzeCompleted(p) ==
  LET s == st[p]
  IN /\ s.pc = "analyze_completed"
     /\ \E delivered \in BOOLEAN :
          Set(p, [Sent(s, analyzeSendStatusReport(s, AnalyzeCompletedStats(s), NoErr),
                       delivered)
                    EXCEPT !.pc = "returned"])
     /\ UNCHANGED <<configStore, jobEnv, sink, nextUuid, nInv, disk, call, features, uploader>>

AnalyzeStage(p) ==
  \/ AnalyzeLoadConfig(p)
  \/ AnalyzeSetup(p)
  \/ AnalyzeGoAutobuild(p)
  \/ AnalyzeFinalize(p)
  \/ AnalyzeQueries(p)
  \/ AnalyzeCleanup(p)
  \/ AnalyzeUpload(p)
  \/ AnalyzeUploadDatabases(p)
  \/ AnalyzeTrapCaches(p)
  \/ AnalyzeWait(p)
  \/ AnalyzeCatch(p)
  \/ AnalyzeCompleted(p)

----------------------------------------------------------------------------
(* lib/analyze-action.js *)

\* isScannedLanguage(language): the languages extracted without a traced build.
isScannedLanguage(language) == language \in {"go", "python"}

\* getConfig (its result is used unchecked), the tracer variable, the output
\* folder.
LibLoadConfig(p) ==
  LET s == st[p]
  IN /\ s.pc = "lib_config"
     /\ \/ \E k \in ThrowKinds : Set(p, Throw(s, StepError(k), "lib_catch"))
        \/ Set(p, [s EXCEPT !.config = getConfig, !.configRead = TRUE, !.idx = 1,
                            !.pc = "lib_extract"])
     /\ UNCHANGED <<configStore, jobEnv, sink, nextUuid, nInv, disk, call, features, uploader>>

\* The step after the loop iteration idx of a per-language loop.
LoopNext(s, samePc, afterPc) ==
  IF s.idx = Len(s.config.languages)
    THEN [s EXCEPT !.idx = 1, !.pc = afterPc]
    ELSE [s EXCEPT !.idx = @ + 1, !.pc = samePc]

\* createdDBForScannedLanguages: config.codeQLCmd is read first, then one
\* loop iteration per language.
LibExtract(p) ==
  LET s == st[p]
      language == s.config.languages[s.idx]
  IN /\ s.pc = "lib_extract"
     /\ IF ~s.config.defined
          THEN Set(p, Throw(s, UndefinedConfigDeref, "lib_catch"))
          ELSE IF isScannedLanguage(language)
                 THEN \/ \E k \in ThrowKinds :
                           Set(p, Throw(s, StepError(k), "lib_catch"))
                      \/ Set(p, LoopNext([s EXCEPT !.work = @ \cup {W("extract", language)}],
                                         "lib_extract", "lib_finalize"))
                 ELSE Set(p, LoopNext(s, "lib_extract", "lib_finalize"))
     /\ UNCHANGED <<configStore, jobEnv, sink, nextUuid, nInv, disk, call, features, uploader>>

\* finalizeDatabaseCreation: one iteration of the finalize loop.
finalizeDatabaseCreation(p) ==
  LET s == st[p]
      language == s.config.languages[s.idx]
  IN /\ s.pc = "lib_finalize"
     /\ \/ \E k \in ThrowKinds : Set(p, Throw(s, StepError(k), "lib_catch"))
        \/ Set(p, LoopNext([s EXCEPT !.work = @ \cup {W("finalize", language)}],
                           "lib_finalize", "lib_queries"))
     /\ UNCHANGED <<configStore, jobEnv, sink, nextUuid, nInv, disk, call, features, uploader>>

\* The Error runQueries throws for a language whose query list is empty.
NoQueriesError(language) ==
  [kind |-> "Error",
   msg |-> "Unable to analyse " \o language
             \o " as no queries were selected for this language",
   failure |-> "none"]

\* What runQueries does when databaseAnalyze throws for a language: it
\* returns a report naming the language.
QueriesFailed(s, language) ==
  [s EXCEPT !.runStats = QueryStats(language), !.idx = 1, !.pc = "lib_upload"]

\* A runQueries that hands every remaining language to the engine at once,
\* as a Promise.all over config.languages would.
QueriesAnalysedTogether(s, language) ==
  [s EXCEPT !.work = @ \cup {W("queries", s.config.languages[i]) :
                               i \in s.idx..Len(s.config.languages)},
            !.runStats = QueryStats("none"), !.idx = 1, !.pc = "lib_upload"]

\* What runQueries does after a language was analysed: the next language,
\* or the empty report after the last.
QueriesAnalysed(s, language) ==
  LET t == LoopNext([s EXCEPT !.work = @ \cup {W("queries", language)}],
                    "lib_queries", "lib_upload")
  IN IF s.idx = Len(s.config.languages)
       THEN [t EXCEPT !.runStats = QueryStats("none")]
       ELSE t

\* A runQueries that passes over a language without queries instead of
\* throwing.
runQueriesSkippingEmpty(p) ==
  LET s == st[p]
      language == s.config.languages[s.idx]
  IN /\ s.pc = "lib_queries"
     /\ IF language \in s.config.emptyQueries
          THEN Set(p, LoopNext(s, "lib_queries", "lib_upload"))
          ELSE \/ Set(p, QueriesFailed(s, language))
               \/ Set(p, QueriesAnalysed(s, language))
     /\ UNCHANGED <<configStore, jobEnv, sink, nextUuid, nInv, disk, call, features, uploader>>

\* runQueries: one iteration of the loop over config.languages.
runQueries(p) ==
  LET s == st[p]
      language == s.config.languages[s.idx]
  IN /\ s.pc = "lib_queries"
     /\ IF language \in s.config.emptyQueries
          THEN Set(p, Throw([s EXCEPT !.currentLanguage = language],
                            NoQueriesError(language), "lib_catch"))
          ELSE \/ Set(p, QueriesFailed(s, language))
               \/ Set(p, QueriesAnalysed(s, language))
     /\ UNCHANGED <<configStore, jobEnv, sink, nextUuid, nInv, disk, call, features, uploader>>

\* upload_lib.upload when the upload input is 'true'.
LibUpload(p) ==
  LET s == st[p]
  IN /\ s.pc = "lib_upload"
     /\ \E uploadInput \in {"true", "false"} :
          LET t == [s EXCEPT !.upload = uploadInput, !.pc = "lib_completed"]
          IN IF uploadInput = "true"
               THEN \/ \E k \in ThrowKinds :
                         Set(p, Throw([s EXCEPT !.upload = uploadInput],
                                      StepError(k), "lib_catch"))
                    \/ Set(p, [t EXCEPT !.uploadResult = TRUE,
                                        !.work = @ \cup {W("upload", "-")}])
               ELSE Set(p, t)
     /\ UNCHANGED <<configStore, jobEnv, sink, nextUuid, nInv, disk, call, features, uploader>>

\* A status that would look at the queries report only.
LibStatusOfQueries(queriesStats, error) ==
  IF queriesStats.failure # "none" THEN "failure" ELSE "success"

\* The status lib/analyze-action.js gives its completed report.
LibStatus(queriesStats, error) ==
  IF queriesStats.failure # "none" \/ error # NoErr THEN "failure" ELSE "success"

\* sendStatusReport of lib/analyze-action.js
libSendStatusReport(s, queriesStats, uploadStats, error) ==
  [createStatusReportBase("finish", LibStatus(queriesStats, error), NoDiskUsage,
                          s.env, error)
     EXCEPT !.queryStats = queriesStats.defined,
            !.failure_language = queriesStats.failure,
            !.uploadStats = uploadStats]

LibCatch(p) ==
  LET s == st[p]
  IN /\ s.pc = "lib_catch"
     /\ \E delivered \in BOOLEAN :
          Set(p, [Sent(setFailed(s, "", s.err.msg),
                       libSendStatusReport(s, s.runStats, s.uploadResult, s.err),
                       delivered)
                    EXCEPT !.pc = "returned"])
     /\ UNCHANGED <<configStore, jobEnv, sink, nextUuid, nInv, disk, call, features, uploader>>

LibCompleted(p) ==
  LET s == st[p]
  IN /\ s.pc = "lib_completed"
     /\ \E delivered \in BOOLEAN :
          Set(p, [Sent(s, libSendStatusReport(s, s.runStats, s.uploadResult, NoErr),
                       delivered)
                    EXCEPT !.pc = "returned"])
     /\ UNCHANGED <<configStore, jobEnv, sink, nextUuid, nInv, disk, call, features, uploader>>

LibStage(p) ==
  \/ LibLoadConfig(p)
  \/ LibExtract(p)
  \/ finalizeDatabaseCreation(p)
  \/ runQueries(p)
  \/ LibUpload(p)
  \/ LibCatch(p)
  \/ LibCompleted(p)

----------------------------------------------------------------------------
(* Specifications *)

\* The steps of the stage process p.
RunStage(p) ==
  \/ SendStarting(p)
  \/ runWrapper(p)
  \/ InitStage(p)
  \/ AutobuildStage(p)
  \/ AnalyzeStage(p)
  \/ LibStage(p)

\* A job whose steps run one after the other.
Next ==
  \/ Start(1)
  \/ RunStage(1)

Spec == Init /\ [][Next]_vars

\* The same job on a runner that is low on disk space.
InitLowDisk == JobStart /\ disk = "low"

SpecLowDisk == InitLowDisk /\ [][Next]_vars

\* Two invocations of one stage started together in the same job, with the
\* same inputs and the same job environment: before any Init ran, or after
\* an Init that exported job-run id 1 and persisted a Config.  Init itself
\* generates a fresh job-run id in every invocation, so two invocations of
\* Init never report under the same id; the stages here are the ones that
\* inherit the id.
DupStages == Stages \ {"init"}
DupConfigs == {c \in ConfigSet : c.emptyQueries = {} /\ Len(c.languages) = 2}

JobBefore(stage, u, config) ==
  /\ st = [p \in Procs |->
             NewInvocation(stage, "false", FALSE, [uuid |-> u, didAutobuildGo |-> FALSE])]
  /\ jobEnv = [uuid |-> u, didAutobuildGo |-> FALSE]
  /\ nextUuid = u + 1
  /\ configStore = IF config.defined THEN saveConfig(config) ELSE NoFile

InitDup ==
  /\ \E stage \in DupStages :
       \/ JobBefore(stage, 0, NoConfig)
       \/ \E c \in DupConfigs : JobBefore(stage, 1, c)
  /\ sink = {}
  /\ nInv = Cardinality(Procs)
  /\ disk = "enough"
  /\ call = NoCall
  /\ features = NoFeatures
  /\ uploader = NoUploader

RunDupStage(p) ==
  \/ SendStarting(p)
  \/ runWrapper(p)
  \/ AutobuildStage(p)
  \/ AnalyzeStage(p)
  \/ LibStage(p)

NextDup == \E p \in Procs : RunDupStage(p)

SpecDup == InitDup /\ [][NextDup]_vars

----------------------------------------------------------------------------
(* What is observed of an invocation *)

IsStarting(r) == r.status = "starting"
IsCompleted(r) == r.status # "starting"

\* The starting reports and the completed reports an invocation handed over.
Starting(s) == SelectSeq(s.reports, IsStarting)
Completed(s) == SelectSeq(s.reports, IsCompleted)

\* The job is marked failed: core.setFailed was called, the exit code is non-zero.
Failed(s) == s.setFailedCalls # <<>>

\* The process of the invocation has ended.
Ended(s) == s.pc = "done"

NonSuccess == {"failure", "user-error", "aborted"}

\* The invocation read the Config Store and found no Config.
MissingConfig(s) == s.configRead /\ ~s.config.defined

\* No report of the invocation reached the sink.
SinkUnreachable(s) == \A i \in DOMAIN s.reports : ~s.reports[i].delivered

\* The stage did some of its work, or went as far as a completed report.
Worked(s) == s.work # {} \/ s.configRead \/ Completed(s) # <<>>

\* All the work of a stage whose steps all succeed.
FullWork(s) ==
  CASE s.stage = "init" ->
         {W("initCodeQL", "-"), W("initConfig", "-"), W("runInit", "-")} \subseteq s.work
    [] s.stage = "autobuild" ->
         {W("autobuild", l) : l \in Range(s.languages)} \subseteq s.work
    [] s.stage = "analyze" ->
         /\ {W("finalize", l) : l \in Range(s.config.languages)} \subseteq s.work
         /\ s.skipQueries = "false" =>
              {W("queries", l) : l \in Range(s.config.languages)} \subseteq s.work
         /\ ShouldUpload(s.runStats, s.upload) => W("upload", "-") \in s.work
    [] OTHER ->
         /\ {W("finalize", l) : l \in Range(s.config.languages)} \subseteq s.work
         /\ {W("queries", l) : l \in Range(s.config.languages)} \subseteq s.work
         /\ s.upload = "true" => W("upload", "-") \in s.work

----------------------------------------------------------------------------
(* Claims *)

\* C1: in every ended invocation of a stage the job is marked failed if and
\* only if the invocation sent a completed report with status failure,
\* user-error or aborted, whether or not its reports were delivered.
C1_ExitCodeMatchesTerminalState ==
  \A p \in Procs :
    LET s == st[p]
    IN Ended(s) =>
         (Failed(s) <=>
            \E i \in DOMAIN s.reports : s.reports[i].status \in NonSuccess)

\* C1, the diverging run: lib/analyze-action.js ends with a completed report
\* of status failure and the job not marked failed.
C1_FailureReportedJobNotFailed ==
  \E p \in Procs :
    LET s == st[p]
    IN /\ s.stage = "analyze_lib" /\ Ended(s)
       /\ Len(Completed(s)) = 1
       /\ Completed(s)[1].status = "failure"
       /\ ~Failed(s)

\* C2: an invocation sends at most one starting and at most one completed
\* report, the starting report first, and has sent exactly one starting
\* report when it ends.
C2_OneStartingAtMostOneCompleted ==
  \A p \in Procs :
    LET s == st[p]
    IN /\ Len(Starting(s)) <= 1
       /\ Len(Completed(s)) <= 1
       /\ s.reports # <<>> => IsStarting(s.reports[1])
       /\ Ended(s) => Len(Starting(s)) = 1

\* C2, the diverging run: Init ends, the job marked failed, without having
\* sent any report.
C2_InitEndedWithoutStarting ==
  \E p \in Procs :
    LET s == st[p]
    IN s.stage = "init" /\ Ended(s) /\ s.reports = <<>> /\ Failed(s)

\* C3: once the starting report returned false the invocation has returned
\* from run(): it never reads the Config, does no stage work, sends no
\* completed report, and the job is not marked failed.
C3_DuplicateSignalReturnsSilently ==
  \A p \in Procs :
    LET s == st[p]
    IN s.startRet = "false" =>
         /\ s.pc \in {"returned", "done"}
         /\ s.work = {}
         /\ ~s.configRead
         /\ Len(s.reports) = 1
         /\ Completed(s) = <<>>
         /\ ~Failed(s)

\* C3, its case: an invocation whose starting report returned false has ended.
C3_DuplicateSignalSeen ==
  \E p \in Procs :
    LET s == st[p]
    IN s.startRet = "false" /\ Ended(s) /\ s.stage \in {"autobuild", "analyze"}

BothStartsDelivered ==
  \A p \in Procs : st[p].reports # <<>> /\ st[p].reports[1].delivered

C5_MissingConfigStopsWithFixedMessage ==
  \A p \in Procs :
    LET s == st[p]
    IN (Ended(s) /\ MissingConfig(s)) =>
         /\ s.work = {}
         /\ \E i \in DOMAIN s.setFailedCalls :
              s.setFailedCalls[i].msg = ConfigNotFound.msg
         /\ Len(Completed(s)) = 1
         /\ Completed(s)[1].cause = ConfigNotFound.msg

\* C5, the diverging run: lib/analyze-action.js found no Config and reported
\* the error of dereferencing it in place of the missing-Config message.
C5_LibReportsDereferenceError ==
  \E p \in Procs :
    LET s == st[p]
    IN /\ s.stage = "analyze_lib" /\ Ended(s) /\ MissingConfig(s)
       /\ Len(Completed(s)) = 1
       /\ Completed(s)[1].cause = UndefinedConfigDeref.msg

\* C6: an ended Autobuild or Analyze invocation that found no Config sent a
\* completed report of status user-error.
C6_MissingConfigIsUserError ==
  \A p \in Procs :
    LET s == st[p]
    IN (Ended(s) /\ MissingConfig(s) /\ s.stage \in {"autobuild", "analyze"}) =>
         /\ Len(Completed(s)) = 1
         /\ Completed(s)[1].status = "user-error"

\* C6, the diverging run: Autobuild found no Config and reported status failure.
C6_MissingConfigReportedAsFailure ==
  \E p \in Procs :
    LET s == st[p]
    IN /\ s.stage = "autobuild" /\ Ended(s) /\ MissingConfig(s)
       /\ Len(Completed(s)) = 1
       /\ Completed(s)[1].status = "failure"

\* C7: an ended invocation none of whose reports reached the sink, in which
\* no step threw and no language failed (and no error was expected), did all
\* its work, reported success and left the job unfailed; and the job of any
\* invocation is marked failed only for an error of its steps or an expected
\* error that did not come, never for the outcome of sending a report.
C7_TelemetryNeverFailsStage ==
  \A p \in Procs :
    LET s == st[p]
    IN /\ (/\ Ended(s) /\ SinkUnreachable(s)
           /\ s.err = NoErr /\ s.runStats.failure = "none"
           /\ s.expectError # "true") =>
            /\ ~Failed(s)
            /\ s.startRet = "true"
            /\ FullWork(s)
            /\ Len(Completed(s)) = 1
            /\ Completed(s)[1].status = "success"
       /\ Failed(s) => (s.err # NoErr \/ s.expectError = "true")
       /\ \A i \in DOMAIN s.setFailedCalls :
            s.setFailedCalls[i].msg \in {s.err.msg, "ExpectErrorNotThrown"}

\* C7, its case: Analyze ran queries, uploaded and ended with the job not
\* failed although neither of its two reports reached the sink.
C7_SucceededWithSinkUnreachable ==
  \E p \in Procs :
    LET s == st[p]
    IN /\ s.stage = "analyze" /\ Ended(s) /\ SinkUnreachable(s)
       /\ Len(s.reports) = 2
       /\ W("upload", "-") \in s.work
       /\ Len(s.config.languages) >= 2
       /\ ~Failed(s)

\* The finalize step threw for the second of three languages.
FinalizeThrewForSecond(s) ==
  /\ s.stage = "analyze_lib" /\ s.thrownAt = "lib_finalize"
  /\ Len(s.config.languages) = 3 /\ s.idx = 2

\* C8: when finalize threw for B of [A, B, C], the ended stage's completed
\* report has status failure and names B, and A and C were finalized and
\* analysed.
C8_FinalizeFailureIsolated ==
  \A p \in Procs :
    LET s == st[p]
        languages == s.config.languages
    IN (Ended(s) /\ FinalizeThrewForSecond(s)) =>
         /\ Len(Completed(s)) = 1
         /\ Completed(s)[1].status = "failure"
         /\ Completed(s)[1].failure_language = languages[2]
         /\ {W("finalize", languages[1]), W("finalize", languages[3])} \subseteq s.work
         /\ {W("queries", languages[1]), W("queries", languages[3])} \subseteq s.work

\* C8, the diverging run: finalize threw for B; the report names no failing
\* language, C was never finalized and no language was analysed.
C8_FinalizeThrowAbortsStage ==
  \E p \in Procs :
    LET s == st[p]
        languages == s.config.languages
    IN /\ Ended(s) /\ FinalizeThrewForSecond(s)
       /\ Len(Completed(s)) = 1
       /\ Completed(s)[1].failure_language = "none"
       /\ W("finalize", languages[1]) \in s.work
       /\ W("finalize", languages[3]) \notin s.work
       /\ \A l \in Range(languages) : W("queries", l) \notin s.work

\* The language whose query run failed in the invocation, or "none".
QueryFailure(s) ==
  IF s.stage = "analyze_lib" THEN s.runStats.failure ELSE s.err.failure

\* C9: when the query run of one language failed and nothing else did, the
\* ended stage analysed every other language of the Config, uploaded the
\* results when upload was asked for, and its completed report names the
\* failing language with status failure.
C9_QueryFailureIsolated ==
  \A p \in Procs :
    LET s == st[p]
    IN (/\ Ended(s) /\ QueryFailure(s) # "none"
        /\ s.stage = "analyze_lib" => s.err = NoErr) =>
         /\ \A l \in Range(s.config.languages) \ {QueryFailure(s)} :
              W("queries", l) \in s.work
         /\ s.upload \in {"true", "always"} => W("upload", "-") \in s.work
         /\ Len(Completed(s)) = 1
         /\ Completed(s)[1].failure_language = QueryFailure(s)
         /\ Completed(s)[1].status = "failure"

\* C9, the diverging run: the first language's query run failed in
\* lib/analyze-action.js and the second language was never analysed.
C9_LaterLanguagesNotAnalysed ==
  \E p \in Procs :
    LET s == st[p]
        languages == s.config.languages
    IN /\ s.stage = "analyze_lib" /\ Ended(s) /\ s.err = NoErr
       /\ Len(languages) >= 2
       /\ s.runStats.failure = languages[1]
       /\ W("queries", languages[2]) \notin s.work
       /\ Len(Completed(s)) = 1
       /\ Completed(s)[1].status = "failure"

\* C10: an ended invocation that got past the starting report sent exactly
\* one completed report, and that report carries the query statistics and
\* the upload statistics the invocation had gathered.
C10_CompletedReportCarriesMetrics ==
  \A p \in Procs :
    LET s == st[p]
    IN (Ended(s) /\ s.startRet = "true") =>
         /\ Len(Completed(s)) = 1
         /\ s.runStats.defined => Completed(s)[1].queryStats
         /\ s.uploadResult => Completed(s)[1].uploadStats

\* C10, the diverging run: Analyze ran the queries and uploaded, then
\* waitForProcessing threw; the failure report has neither statistics.
C10_WaitFailureDropsStats ==
  \E p \in Procs :
    LET s == st[p]
    IN /\ s.stage = "analyze" /\ Ended(s) /\ s.thrownAt = "analyze_wait"
       /\ s.runStats.defined /\ s.uploadResult
       /\ Len(Completed(s)) = 1
       /\ ~Completed(s)[1].queryStats
       /\ ~Completed(s)[1].uploadStats

\* C11: whenever an invocation has marked the job failed it has handed a
\* status report to the reporter.
C11_FailedOnlyAfterReport ==
  \A p \in Procs :
    LET s == st[p]
    IN Failed(s) => s.reports # <<>>

\* C11, the diverging run: Init's setup threw before the try block; the
\* wrapper marked the job failed and no report was ever built.
C11_SetupErrorFailsWithoutReport ==
  \E p \in Procs :
    LET s == st[p]
    IN /\ s.stage = "init" /\ Ended(s) /\ s.thrownAt = "init_setup"
       /\ s.setFailedCalls =
            <<[prefix |-> WrapperPrefix("init"), msg |-> s.err.msg]>>
       /\ s.reports = <<>>

\* The work an invocation did for particular languages.
LanguageWork(s) == {w \in s.work : w[2] # "-"}

\* C12: on a runner low on disk, an ended invocation of Init, Autobuild or
\* Analyze that got to its disk check and was not stopped by the duplicate
\* signal did no language-specific work and sent one completed report, of
\* status aborted.
C12_LowDiskAborts ==
  \A p \in Procs :
    LET s == st[p]
    IN (/\ Ended(s) /\ HasDiskCheck(s.stage) /\ checkDiskUsage = "low"
        /\ s.thrownAt # "init_setup" /\ s.startRet # "false") =>
         /\ LanguageWork(s) = {}
         /\ Len(Completed(s)) = 1
         /\ Completed(s)[1].status = "aborted"

\* C12, the diverging run: on a runner low on disk Analyze put the low disk
\* usage in its starting report, went on to analyse every language and
\* reported success.
C12_LowDiskAnalyzeSucceeds ==
  \E p \in Procs :
    LET s == st[p]
    IN /\ s.stage = "analyze" /\ Ended(s)
       /\ Len(s.reports) = 2
       /\ s.reports[1].disk = "low"
       /\ {W("queries", l) : l \in Range(s.config.languages)} \subseteq s.work
       /\ s.config.defined
       /\ s.reports[2].status = "success"
       /\ s.reports[2].disk = "low"

\* C13: when the TRAP-cache upload (or getting the CLI for it) threw in an
\* ended Analyze invocation, the job is not marked failed and the completed
\* report has the status it would have had without the throw, success.
C13_TrapUploadFailureTolerated ==
  \A p \in Procs :
    LET s == st[p]
    IN (Ended(s) /\ s.thrownAt = "analyze_trap") =>
         /\ ~Failed(s)
         /\ Len(Completed(s)) = 1
         /\ Completed(s)[1].status = "success"

\* C13, the diverging run: queries and upload were done, then the TRAP-cache
\* upload threw; the job is marked failed with that error and the completed
\* report has a non-success status.
C13_TrapUploadFailureFailsStage ==
  \E p \in Procs :
    LET s == st[p]
    IN /\ s.stage = "analyze" /\ Ended(s) /\ s.thrownAt = "analyze_trap"
       /\ s.expectError = "false"
       /\ W("upload", "-") \in s.work
       /\ s.setFailedCalls = <<[prefix |-> "", msg |-> s.err.msg]>>
       /\ Len(Completed(s)) = 1
       /\ Completed(s)[1].status \in {"failure", "user-error"}
       /\ Completed(s)[1].cause = s.err.msg

\* An invocation ran the Go autobuilder.
BuiltGo(s) == W("autobuild", "go") \in s.work

----------------------------------------------------------------------------
(* status-report.ts: createStatusReportBase, field by field *)

\* Text is a sequence of one-character strings.
DigitChars == <<"0", "1", "2", "3", "4", "5", "6", "7", "8", "9">>
Digit(n) == DigitChars[n + 1]
DigitValue(c) == CHOOSE v \in 0..9 : DigitChars[v + 1] = c

\* String(n) of a non-negative integer: how the runner writes GITHUB_RUN_ID.
RECURSIVE DecimalString(_)
DecimalString(n) ==
  IF n < 10 THEN <<Digit(n)>> ELSE DecimalString(n \div 10) \o <<Digit(n % 10)>>

\* parseInt(text, 10) of a text of digits.
RECURSIVE parseInt(_)
parseInt(text) ==
  IF text = <<>>
    THEN 0
    ELSE parseInt(SubSeq(text, 1, Len(text) - 1)) * 10 + DigitValue(text[Len(text)])

\* n written with w digits, zero-padded.
Pad(n, w) == [i \in 1..w |-> Digit((n \div (10 ^ (w - i))) % 10)]

\* A date that would be written without padding.
toUnpaddedString(d) ==
  DecimalString(d.year) \o <<"-">> \o DecimalString(d.month) \o <<"-">>
    \o DecimalString(d.day) \o <<"T">> \o DecimalString(d.hour) \o <<":">>
    \o DecimalString(d.minute) \o <<":">> \o DecimalString(d.second) \o <<".">>
    \o DecimalString(d.ms) \o <<"Z">>

\* Date.prototype.toISOString(): YYYY-MM-DDTHH:mm:ss.sssZ of the UTC fields.
toISOString(d) ==
  Pad(d.year, 4) \o <<"-">> \o Pad(d.month, 2) \o <<"-">> \o Pad(d.day, 2)
    \o <<"T">> \o Pad(d.hour, 2) \o <<":">> \o Pad(d.minute, 2)
    \o <<":">> \o Pad(d.second, 2) \o <<".">> \o Pad(d.ms, 3) \o <<"Z">>

\* createStatusReportBase(actionName, status, actionStartedAt, diskUsage,
\* cause, exception), with the process environment it reads.
statusReportBaseFields(actionName, status, actionStartedAt, diskUsage, cause, exception, penv) ==
  [action_name |-> actionName,
   status |-> status,
   action_started_at |-> toISOString(actionStartedAt),
   runner_available_disk_space_bytes |-> diskUsage.numAvailableBytes,
   cause |-> cause,
   exception |-> exception,
   ref |-> penv.GITHUB_REF,
   commit_oid |-> penv.GITHUB_SHA,
   analysis_key |-> penv.CODEQL_ACTION_ANALYSIS_KEY,
   workflow_run_id |-> parseInt(penv.GITHUB_RUN_ID),
   workflow_run_attempt |-> parseInt(penv.GITHUB_RUN_ATTEMPT),
   started_at |-> penv.WORKFLOW_STARTED_AT,
   job_run_uuid |-> penv.JOB_RUN_UUID]

\* The inputs of the calls that are evaluated.
CallDates ==
  [year : {2023}, month : {5, 12}, day : {1, 19}, hour : {5, 23},
   minute : {0, 19}, second : {0}, ms : {0, 7}]
CallStatuses == {"starting", "success", "failure", "user-error", "aborted"}
CallDiskUsages == {[numAvailableBytes |-> 100, numTotalBytes |-> 500],
                   [numAvailableBytes |-> 0, numTotalBytes |-> 500]}
CallCauses == {"undefined", "failure cause"}
CallRunIds == {7, 100, 4096}
CallRunAttempts == {1, 2, 10}
CallRefs == {"refs/heads/main", "refs/pull/1/merge"}

\* The process environment of a run with the given run id and attempt.
ProcessEnv(ref, runId, runAttempt) ==
  [GITHUB_REF |-> ref, GITHUB_SHA |-> "aaaa",
   CODEQL_ACTION_ANALYSIS_KEY |-> "analysis-key",
   GITHUB_RUN_ID |-> DecimalString(runId),
   GITHUB_RUN_ATTEMPT |-> DecimalString(runAttempt),
   WORKFLOW_STARTED_AT |-> "2023-05-19T05:00:00.000Z",
   JOB_RUN_UUID |-> "uuid"]

NoReport == [action_name |-> "none"]

\* A call of createStatusReportBase about to be made.
InitCall ==
  /\ st = [p \in Procs |-> Idle]
  /\ configStore = NoFile
  /\ jobEnv = [uuid |-> 0, didAutobuildGo |-> FALSE]
  /\ sink = {}
  /\ nextUuid = 1
  /\ nInv = 0
  /\ disk = "enough"
  /\ features = NoFeatures
  /\ uploader = NoUploader
  /\ \E actionName \in {ActionName(g) : g \in Stages}, status \in CallStatuses,
        startedAt \in CallDates, diskUsage \in CallDiskUsages, cause \in CallCauses,
        ref \in CallRefs, runId \in CallRunIds, runAttempt \in CallRunAttempts :
       call = [fn |-> "createStatusReportBase",
               actionName |-> actionName, status |-> status,
               startedAt |-> startedAt, diskUsage |-> diskUsage,
               cause |-> cause,
               exception |-> IF cause = "undefined" THEN "undefined"
                                                    ELSE "exception stack trace",
               ref |-> ref, runId |-> runId, runAttempt |-> runAttempt,
               returned |-> FALSE, result |-> NoReport]

\* The call returns its report.
BuildStatusReportBase ==
  /\ call.fn = "createStatusReportBase" /\ ~call.returned
  /\ call' = [call EXCEPT
                !.returned = TRUE,
                !.result = statusReportBaseFields(
                             call.actionName, call.status, call.startedAt,
                             call.diskUsage, call.cause, call.exception,
                             ProcessEnv(call.ref, call.runId, call.runAttempt))]
  /\ UNCHANGED <<st, configStore, jobEnv, sink, nextUuid, nInv, disk, features, uploader>>

SpecCall == InitCall /\ [][BuildStatusReportBase]_vars

\* What a text in ISO-8601 form YYYY-MM-DDTHH:mm:ss.sssZ says.
parseISO(text) ==
  [year |-> parseInt(SubSeq(text, 1, 4)), month |-> parseInt(SubSeq(text, 6, 7)),
   day |-> parseInt(SubSeq(text, 9, 10)), hour |-> parseInt(SubSeq(text, 12, 13)),
   minute |-> parseInt(SubSeq(text, 15, 16)), second |-> parseInt(SubSeq(text, 18, 19)),
   ms |-> parseInt(SubSeq(text, 21, 23))]

IsISO8601(text) ==
  /\ Len(text) = 24
  /\ <<text[5], text[8], text[11], text[14], text[17], text[20], text[24]>>
       = <<"-", "-", "T", ":", ":", ".", "Z">>
  /\ \A i \in (1..24) \ {5, 8, 11, 14, 17, 20, 24} : text[i] \in Range(DigitChars)

C18_CauseOnlyOnNonSuccess ==
  \A p \in Procs : \A i \in DOMAIN st[p].reports :
    LET r == st[p].reports[i]
    IN r.status \in {"starting", "success"} =>
         (r.cause = NoErr.msg /\ ~r.exception)

\* C18, its case: an invocation whose step threw sent a starting report
\* without cause and a completed report of non-success status with the
\* error's message and stack.
C18_FailureReportCarriesCause ==
  \E p \in Procs :
    LET s == st[p]
    IN /\ s.stage = "analyze_lib" /\ Ended(s) /\ Len(s.reports) = 2
       /\ s.reports[1].status = "starting" /\ s.reports[1].cause = NoErr.msg
       /\ s.reports[2].status = "failure"
       /\ s.err # NoErr
       /\ s.reports[2].cause = s.err.msg /\ s.reports[2].exception

(* runWrapper and checkForTimeout *)

\* The three entry points whose wrapper is src/*-action.ts.
EntryPoints == {"init", "autobuild", "analyze"}

\* C19: every stage entry point (Init, Autobuild, Analyze) runs checkForTimeout
\* after run() settles, on the success path and on the failure path alike: an
\* invocation of one of the three that has ended has run the timeout check.
C19_TimeoutCheckAlwaysRuns ==
  \A p \in DOMAIN st :
    (st[p].stage \in EntryPoints /\ Ended(st[p])) => st[p].checkedTimeout

\* An Autobuild invocation ended, after run() resolved with its completed report
\* handed over, and its wrapper never ran checkForTimeout.
C19_AutobuildEndedWithoutTimeoutCheck ==
  \E p \in DOMAIN st :
    /\ st[p].stage = "autobuild"
    /\ Ended(st[p])
    /\ ~Failed(st[p])
    /\ Completed(st[p]) # <<>>
    /\ ~st[p].checkedTimeout

(* Per-language loops *)

\* The languages for which the engine invocation of the kind has completed.
Processed(s, kind) == {l \in Range(LangOrder) : W(kind, l) \in s.work}

\* The first n languages of a list.
FirstLanguages(languages, n) == {languages[i] : i \in 1..n}

\* The languages of the kind were processed in the order of the list: they
\* are the first n of it, for some n (with only, those the loop does not skip).
InListOrder(s, kind, languages, only) ==
  \E n \in 0..Len(languages) :
    Processed(s, kind) = FirstLanguages(languages, n) \cap only

ScannedLanguages == {l \in Range(LangOrder) : isScannedLanguage(l)}

\* Autobuild works through the first languages of the Config, in Config order.
AutobuildInOrder(s) ==
  s.stage = "autobuild" =>
    InListOrder(s, "autobuild", s.config.languages, Range(LangOrder))

\* Finalize+Query works through config.languages in order in each of its
\* loops, and a loop starts only when the loop before it has finished.
FinalizeQueryInOrder(s) ==
  s.stage = "analyze_lib" =>
    /\ InListOrder(s, "extract", s.config.languages, ScannedLanguages)
    /\ InListOrder(s, "finalize", s.config.languages, Range(LangOrder))
    /\ InListOrder(s, "queries", s.config.languages, Range(LangOrder))
    /\ Processed(s, "finalize") # {} =>
         Processed(s, "extract") = Range(s.config.languages) \cap ScannedLanguages
    /\ Processed(s, "queries") # {} =>
         Processed(s, "finalize") = Range(s.config.languages)

----------------------------------------------------------------------------
(* Config Store: what crosses the process boundary *)

\* Every valid Config is loaded back as it was saved, field for field.
RoundTrips ==
  \A c \in ConfigSet :
    /\ loadConfig(saveConfig(c)).languages = c.languages
    /\ loadConfig(saveConfig(c)).emptyQueries = c.emptyQueries
    /\ loadConfig(saveConfig(c)) = c

----------------------------------------------------------------------------
(* feature-flags.ts: the Features object of a process *)

\* The flags init-action.ts resolves.
Flags == {"DisableKotlinAnalysisEnabled", "CodeqlJavaLombokEnabled",
          "DisablePythonDependencyInstallationEnabled"}

\* The minimum platform version a flag declares.
minimumVersion(flag) ==
  CASE flag = "DisableKotlinAnalysisEnabled" -> 1
    [] flag = "CodeqlJavaLombokEnabled" -> 2
    [] OTHER -> 3

\* The statically known default of a flag: the feature is disabled.
defaultValue(flag) == FALSE

\* The platform versions a process can run against.
MaxPlatformVersion == 3
PlatformVersions == 0..MaxPlatformVersion

\* The calls of getValue followed in one process.
MaxResolves == 4

\* The remote flag document: a value for every flag.
FlagDocuments == [Flags -> BOOLEAN]

\* The document a failed fetch leaves in the cache: no flag is set in it.
EmptyDocument == [flag \in Flags |-> defaultValue(flag)]

\* new Features(gitHubVersion, ...): nothing is fetched yet.
NewFeatures(gitHubVersion, remote) ==
  [object |-> "Features", gitHubVersion |-> gitHubVersion, remote |-> remote,
   cached |-> FALSE, document |-> EmptyDocument, fetchFailed |-> FALSE,
   requests |-> 0, resolved |-> <<>>]

\* The fetch of the remote document: one request, whose answer is cached;
\* after a failed request the cache holds the defaults.
Fetched(f, networkOk) ==
  [f EXCEPT !.cached = TRUE,
            !.document = IF networkOk THEN f.remote ELSE EmptyDocument,
            !.fetchFailed = ~networkOk,
            !.requests = @ + 1]

\* A resolver that would fetch the document on every call.
getValueUncached(f, flag, networkOk) ==
  IF f.gitHubVersion < minimumVersion(flag)
    THEN [f EXCEPT !.resolved = Append(@, [flag |-> flag, value |-> defaultValue(flag),
                                           requested |-> FALSE])]
    ELSE LET g == Fetched(f, networkOk)
         IN [g EXCEPT !.resolved = Append(@, [flag |-> flag, value |-> g.document[flag],
                                              requested |-> TRUE])]

\* getValue(flag): below the flag's gate the default, without a request;
\* otherwise the value in the document, fetched when it is not cached.
getValue(f, flag, networkOk) ==
  IF f.gitHubVersion < minimumVersion(flag)
    THEN [f EXCEPT !.resolved = Append(@, [flag |-> flag, value |-> defaultValue(flag),
                                           requested |-> FALSE])]
    ELSE LET g == IF f.cached THEN f ELSE Fetched(f, networkOk)
         IN [g EXCEPT !.resolved = Append(@, [flag |-> flag, value |-> g.document[flag],
                                              requested |-> ~f.cached])]

\* A process constructs one Features object and resolves flags with it.
InitFeatures ==
  /\ st = [p \in Procs |-> Idle]
  /\ configStore = NoFile
  /\ jobEnv = [uuid |-> 0, didAutobuildGo |-> FALSE]
  /\ sink = {}
  /\ nextUuid = 1
  /\ nInv = 0
  /\ disk = "enough"
  /\ call = NoCall
  /\ uploader = NoUploader
  /\ \E gitHubVersion \in PlatformVersions, remote \in FlagDocuments :
       features = NewFeatures(gitHubVersion, remote)

ResolveFlag ==
  /\ Len(features.resolved) < MaxResolves
  /\ \E flag \in Flags, networkOk \in BOOLEAN :
       features' = getValue(features, flag, networkOk)
  /\ UNCHANGED <<st, configStore, jobEnv, sink, nextUuid, nInv, disk, call, uploader>>

SpecFeatures == InitFeatures /\ [][ResolveFlag]_vars

\* C22: a flag resolved below its minimum platform version issues no request
\* and has its static default; a flag resolved after a failed fetch has its
\* static default; and however many flags a process resolves, it requests the
\* flag document at most once.
C22_FlagGating ==
  /\ [](features.object = "Features" =>
          /\ features.requests <= 1
          /\ \A i \in DOMAIN features.resolved :
               LET r == features.resolved[i]
               IN /\ features.gitHubVersion < minimumVersion(r.flag) =>
                       ~r.requested /\ r.value = defaultValue(r.flag)
                  /\ features.fetchFailed => r.value = defaultValue(r.flag))
  /\ [][\A flag \in Flags :
          (/\ Len(features'.resolved) = Len(features.resolved) + 1
           /\ features'.resolved[Len(features'.resolved)].flag = flag
           /\ features.gitHubVersion < minimumVersion(flag))
            => features'.requests = features.requests]_vars

\* One process resolved four flags and its only request failed: a flag below
\* its gate was resolved without a request, two or more at or above their gate
\* shared the one request, and a flag the remote document enables came back
\* with its default.
C22_FourFlagsOneFailedFetch ==
  /\ features.object = "Features"
  /\ Len(features.resolved) = 4
  /\ features.requests = 1
  /\ features.fetchFailed
  /\ \E i \in DOMAIN features.resolved :
       features.gitHubVersion < minimumVersion(features.resolved[i].flag)
  /\ Cardinality({i \in DOMAIN features.resolved : features.resolved[i].requested}) = 1
  /\ Cardinality({i \in DOMAIN features.resolved :
                    features.gitHubVersion >= minimumVersion(features.resolved[i].flag)}) >= 2
  /\ \E i \in DOMAIN features.resolved :
       LET r == features.resolved[i]
       IN /\ features.gitHubVersion > minimumVersion(r.flag)
          /\ features.remote[r.flag]
          /\ r.value = defaultValue(r.flag)

----------------------------------------------------------------------------
(* upload-lib.ts: the result upload and the processing poll *)

\* The answers of the upload endpoint: created, a validation error, a server
\* error, and a request that got no answer.
Created == 201
BadRequest == 400
ServiceUnavailable == 503
NetworkError == 0
UploadResponses == {Created, BadRequest, ServiceUnavailable, NetworkError}

\* An upload that would retry whatever the failure.
AlwaysRetryable(response) == response # Created

\* Only server errors and network failures are worth another attempt.
Retryable(response) == response >= 500 \/ response = NetworkError

\* The requests one upload may issue, and the wait before a retry: doubled
\* with every retry, up to a cap.
MaxUploadAttempts == 4
UploadBaseDelay == 1
UploadMaxDelay == 4

Min(a, b) == IF a < b THEN a ELSE b
Backoff(retry) == Min(UploadBaseDelay * (2 ^ (retry - 1)), UploadMaxDelay)

\* The processing poll: the interval between two polls and the budget.
StatusPollInterval == 1
StatusPollBudget == 4
ProcessingStatuses == {"pending", "success", "failed"}

\* An upload about to issue its first request; responses is what the
\* endpoint answers, request after request.
NewUpload(responses) ==
  [phase |-> "upload", responses |-> responses, attempts |-> 0, delays |-> <<>>,
   elapsed |-> 0, seen |-> <<>>]

\* One request of uploadFromActions and what follows from its answer.
UploadAnswered(u, response) ==
  LET n == u.attempts + 1
      v == [u EXCEPT !.attempts = n]
  IN IF response = Created
       THEN [v EXCEPT !.phase = "uploaded"]
       ELSE IF Retryable(response) /\ n < MaxUploadAttempts
              THEN [v EXCEPT !.delays = Append(@, Backoff(n))]
              ELSE [v EXCEPT !.phase = "upload_failed"]

\* A poll that would start its budget afresh when it runs out.
PolledWithoutBudget(u, status) ==
  CASE status = "success" -> [u EXCEPT !.seen = Append(@, status), !.phase = "processed"]
    [] status = "failed" ->
         [u EXCEPT !.seen = Append(@, status), !.phase = "processing_failed"]
    [] OTHER -> IF u.elapsed + StatusPollInterval >= StatusPollBudget
                  THEN [u EXCEPT !.elapsed = 0, !.seen = <<>>]
                  ELSE [u EXCEPT !.seen = Append(@, status),
                                 !.elapsed = @ + StatusPollInterval]

\* One poll of waitForProcessing: a terminal status ends it; a pending one
\* costs an interval, and it ends as a soft failure once the budget is spent.
Polled(u, status) ==
  LET v == [u EXCEPT !.seen = Append(@, status)]
  IN CASE status = "success" -> [v EXCEPT !.phase = "processed"]
       [] status = "failed" -> [v EXCEPT !.phase = "processing_failed"]
       [] OTHER ->
            LET w == [v EXCEPT !.elapsed = @ + StatusPollInterval]
            IN IF w.elapsed >= StatusPollBudget
                 THEN [w EXCEPT !.phase = "soft_failure"]
                 ELSE w

InitUploader ==
  /\ st = [p \in Procs |-> Idle]
  /\ configStore = NoFile
  /\ jobEnv = [uuid |-> 0, didAutobuildGo |-> FALSE]
  /\ sink = {}
  /\ nextUuid = 1
  /\ nInv = 0
  /\ disk = "enough"
  /\ call = NoCall
  /\ features = NoFeatures
  /\ \E responses \in [1..MaxUploadAttempts -> UploadResponses] :
       uploader = NewUpload(responses)

\* uploadFromActions issues its next request.
UploadRequest ==
  /\ uploader.phase = "upload"
  /\ uploader' = UploadAnswered(uploader, uploader.responses[uploader.attempts + 1])
  /\ UNCHANGED <<st, configStore, jobEnv, sink, nextUuid, nInv, disk, call, features>>

\* After the upload: waitForProcessing when wait-for-processing is "true".
StartWaiting ==
  /\ uploader.phase = "uploaded"
  /\ \E waitInput \in {"true", "false"} :
       uploader' = [uploader EXCEPT !.phase = IF waitInput = "true"
                                                THEN "polling" ELSE "not_waited"]
  /\ UNCHANGED <<st, configStore, jobEnv, sink, nextUuid, nInv, disk, call, features>>

\* waitForProcessing polls the processing status once.
PollStatus ==
  /\ uploader.phase = "polling"
  /\ \E status \in ProcessingStatuses : uploader' = Polled(uploader, status)
  /\ UNCHANGED <<st, configStore, jobEnv, sink, nextUuid, nInv, disk, call, features>>

NextUploader ==
  \/ UploadRequest
  \/ StartWaiting
  \/ PollStatus

SpecUploader == InitUploader /\ [][NextUploader]_vars

\* The process keeps running: a request or a poll that is due is made.
SpecUploaderFair == SpecUploader /\ WF_vars(NextUploader)

\* The upload has ended, one way or the other.
UploadEnded == uploader.phase \notin {"none", "upload"}

NonDecreasing(s) == \A i \in 1..(Len(s) - 1) : s[i] <= s[i + 1]

TransientThenCreated ==
  <<ServiceUnavailable, ServiceUnavailable, ServiceUnavailable, Created>>

\* C23: the upload retries only retryable failures.  Answered 503, 503, 503,
\* 201 it succeeds after exactly 4 requests; answered 400 first it fails after
\* that one request without a retry; the waits between attempts never
\* decrease; every answer that was retried was retryable; and the number of
\* attempts is bounded.
C23_UploadRetry ==
  uploader.phase # "none" =>
    /\ uploader.attempts <= MaxUploadAttempts
    /\ NonDecreasing(uploader.delays)
    /\ Len(uploader.delays) <= uploader.attempts
    /\ \A i \in 1..Len(uploader.delays) : Retryable(uploader.responses[i])
    /\ (UploadEnded /\ SubSeq(uploader.responses, 1, 4) = TransientThenCreated) =>
         /\ uploader.phase # "upload_failed"
         /\ uploader.attempts = 4
         /\ Len(uploader.delays) = 3
    /\ (UploadEnded /\ uploader.responses[1] = BadRequest) =>
         /\ uploader.phase = "upload_failed"
         /\ uploader.attempts = 1
         /\ uploader.delays = <<>>

\* The upload answered 503, 503, 503, 201 has succeeded with its fourth
\* request, after three waits.
C23_SucceededOnFourthRequest ==
  /\ uploader.phase = "uploaded"
  /\ SubSeq(uploader.responses, 1, 4) = TransientThenCreated
  /\ uploader.attempts = 4
  /\ Len(uploader.delays) = 3
  /\ uploader.delays[1] < uploader.delays[3]

PollEnded == uploader.phase \in {"processed", "processing_failed", "soft_failure"}

\* C24: waitForProcessing never polls beyond its budget; a processing status
\* that stays pending ends it as a soft failure when the budget is spent; a
\* terminal status (success, failed) ends it at once; and a poll that has
\* started always ends.
C24_PollTerminates ==
  /\ [](uploader.phase = "polling" \/ PollEnded =>
          /\ uploader.elapsed <= StatusPollBudget
          /\ Len(uploader.seen) * StatusPollInterval <= StatusPollBudget
          /\ \A i \in 1..(Len(uploader.seen) - 1) : uploader.seen[i] = "pending"
          /\ (uploader.phase = "polling" /\ uploader.seen # <<>>) =>
               uploader.seen[Len(uploader.seen)] = "pending"
          /\ uploader.phase = "soft_failure" =>
               /\ \A i \in DOMAIN uploader.seen : uploader.seen[i] = "pending"
               /\ uploader.elapsed >= StatusPollBudget
          /\ ((\A i \in DOMAIN uploader.seen : uploader.seen[i] = "pending")
                /\ uploader.elapsed >= StatusPollBudget) =>
               uploader.phase = "soft_failure")
  /\ [][PollEnded => uploader' = uploader]_vars
  /\ (uploader.phase = "polling") ~> PollEnded

\* The processing status was pending at every poll until the budget was
\* spent, and waitForProcessing ended as a soft failure.
C24_PendingUntilBudgetSpent ==
  /\ uploader.phase = "soft_failure"
  /\ Len(uploader.seen) * StatusPollInterval = StatusPollBudget
  /\ \A i \in DOMAIN uploader.seen : uploader.seen[i] = "pending"

----------------------------------------------------------------------------
(* init-action.ts: the two try blocks *)

\* Configuration initialisation has completed: initConfig returned.
ConfigInitialised(s) == W("initConfig", "-") \in s.work

\* C25: in Init an error raised after the starting report and before
\* configuration initialisation has completed is reported as user-error when
\* it is a UserError and as aborted otherwise, never as failure; an error
\* raised after configuration initialisation has completed is never reported
\* as aborted; and Autobuild and Analyze never report aborted.
C25_AbortedOnlyBeforeConfigInit ==
  \A p \in Procs :
    LET s == st[p]
    IN \A i \in DOMAIN s.reports :
         LET r == s.reports[i]
         IN IsCompleted(r) =>
              /\ (s.stage = "init" /\ s.thrownAt \in {"init_tools", "init_config"}) =>
                   r.status = IF s.err.kind = "UserError" THEN "user-error" ELSE "aborted"
              /\ (s.stage = "init" /\ ConfigInitialised(s)) => r.status # "aborted"
              /\ s.stage # "init" => r.status # "aborted"

\* Init persisted the Config, then the resolution of the flag that disables
\* Python dependency installation raised an Error, and the completed report
\* says aborted.
C25_AbortedAfterConfigInit ==
  \E p \in Procs :
    LET s == st[p]
    IN /\ s.stage = "init" /\ Ended(s)
       /\ ConfigInitialised(s)
       /\ configStore.exists
       /\ s.thrownAt = "init_python"
       /\ s.err.kind = "Error"
       /\ Len(s.reports) = 2
       /\ s.reports[2].status = "aborted"

\* The steps inside Init's first try block.
FirstPhaseSteps == {"starting", "init_tools", "init_config", "init_python"}

\* The Init invocation failed in its first phase.
FailedInFirstPhase(s) ==
  s.stage = "init" /\ s.err # NoErr /\ s.thrownAt \in FirstPhaseSteps

PythonDepsTried(s) ==
  W("installPythonDeps", "python") \in s.work
    \/ W("installPythonDepsFailed", "python") \in s.work
PythonDepsFailed(s) == W("installPythonDepsFailed", "python") \in s.work

\* C27: a failure of Python dependency installation in Init never fails the
\* stage.  The step in which it fails marks nothing failed, raises nothing
\* and goes on to the second phase; an Init in which nothing else raised an
\* error ends unfailed with a completed report of status success; and the
\* installation is attempted only with python among the languages,
\* setup-python-dependencies "true" and the disabling flag off.
C27_PythonDepsFailureTolerated ==
  /\ [](\A p \in Procs :
          LET s == st[p]
          IN /\ PythonDepsTried(s) =>
                  /\ s.stage = "init"
                  /\ "python" \in Range(s.config.languages)
                  /\ s.setupPython = "true"
                  /\ s.pythonFlag = "off"
             /\ (PythonDepsFailed(s) /\ s.err = NoErr) => ~Failed(s)
             /\ (PythonDepsFailed(s) /\ s.err = NoErr /\ Ended(s)) =>
                  /\ Len(Completed(s)) = 1
                  /\ Completed(s)[1].status = "success"
                  /\ W("runInit", "-") \in s.work)
  /\ [][\A p \in Procs :
          (~PythonDepsFailed(st[p]) /\ PythonDepsFailed(st'[p])) =>
            /\ st'[p].pc = "init_phase2"
            /\ st'[p].err = st[p].err
            /\ st'[p].setFailedCalls = st[p].setFailedCalls
            /\ st'[p].reports = st[p].reports]_vars

\* Python dependency installation failed, and Init went through its second
\* phase and ended with a success report and the job not marked failed.
C27_InitSucceededAfterFailedInstall ==
  \E p \in Procs :
    LET s == st[p]
    IN /\ s.stage = "init" /\ Ended(s)
       /\ PythonDepsFailed(s)
       /\ ~Failed(s)
       /\ W("runInit", "-") \in s.work
       /\ "CODEQL_RAM" \in s.exported
       /\ Len(Completed(s)) = 1
       /\ Completed(s)[1].status = "success"

----------------------------------------------------------------------------
(* analyze-action.ts: the expect-error input *)

\* Analyze outside test mode with an expect-error input other than "false".
BadExpectErrorRun(s) ==
  s.stage = "analyze" /\ s.expectError # "false" /\ ~s.testMode

\* C28: in Analyze outside test mode any expect-error input other than
\* "false" ("true" and an unset input included) makes the stage throw a
\* UserError right after the Config is loaded, before any autobuild,
\* finalize, query or upload work; the job is marked failed with that error's
\* message and the completed report says user-error.
C28_BadExpectErrorStopsAnalyze ==
  \A p \in Procs :
    LET s == st[p]
    IN BadExpectErrorRun(s) =>
         /\ s.work = {}
         /\ s.pc \in {"starting", "analyze_config", "analyze_catch", "returned",
                      "rejected", "done"}
         /\ (s.configRead /\ s.config.defined) =>
              /\ s.err = BadExpectError
              /\ s.err.kind = "UserError"
              /\ s.thrownAt = "analyze_config"
         /\ (s.err = BadExpectError /\ s.pc \in {"returned", "done"}) =>
              /\ s.setFailedCalls = <<[prefix |-> "", msg |-> BadExpectError.msg]>>
              /\ Len(Completed(s)) = 1
              /\ Completed(s)[1].status = "user-error"
              /\ Completed(s)[1].cause = BadExpectError.msg

\* Analyze ran outside test mode with the expect-error input unset, after an
\* Init that persisted the Config: it loaded the Config, threw the UserError,
\* did no work and ended with the job marked failed.
C28_UnsetExpectErrorFailedAnalyze ==
  \E p \in Procs :
    LET s == st[p]
    IN /\ BadExpectErrorRun(s) /\ s.expectError = "unset" /\ Ended(s)
       /\ s.configRead /\ s.config.defined
       /\ s.err = BadExpectError
       /\ s.work = {}
       /\ Failed(s)

\* Analyze in test mode with expect-error "true".
ExpectedErrorRun(s) ==
  s.stage = "analyze" /\ s.expectError = "true" /\ s.testMode

NotThrownMessage == [prefix |-> "", msg |-> "ExpectErrorNotThrown"]

\* C29 as stated: in Analyze in test mode with expect-error "true" the job is
\* marked failed if and only if no step threw.
C29_FailedIffNothingThrown ==
  \A p \in Procs :
    (ExpectedErrorRun(st[p]) /\ Ended(st[p])) =>
      (Failed(st[p]) <=> st[p].err = NoErr)

\* C29: in Analyze in test mode with expect-error "true", when the starting
\* report did not stop the run, the job is marked failed if and only if no
\* step threw: a thrown error is reported in the completed report without a
\* call of core.setFailed, and an error-free run calls core.setFailed once,
\* with "expect-error input was set to true but no error was thrown."
C29_FailedIffNothingThrownInARunThatStarted ==
  \A p \in Procs :
    LET s == st[p]
    IN (ExpectedErrorRun(s) /\ Ended(s) /\ s.startRet # "false") =>
         /\ Failed(s) <=> s.err = NoErr
         /\ s.err = NoErr => s.setFailedCalls = <<NotThrownMessage>>
         /\ s.err # NoErr =>
              /\ s.setFailedCalls = <<>>
              /\ Len(Completed(s)) = 1
              /\ Completed(s)[1].status # "success"
              /\ Completed(s)[1].cause = s.err.msg

\* In test mode with expect-error "true", finalize threw: the error is in the
\* completed report and the job is not marked failed.
C29_ExpectedErrorThrownNotFailed ==
  \E p \in Procs :
    LET s == st[p]
    IN /\ ExpectedErrorRun(s) /\ Ended(s)
       /\ s.thrownAt = "analyze_finalize"
       /\ ~Failed(s)
       /\ Len(Completed(s)) = 1
       /\ Completed(s)[1].status = "failure"

\* C30: ANALYZE_DID_COMPLETE_SUCCESSFULLY is exported as "true" only by an
\* Analyze invocation in which no step threw, the job was not marked failed
\* and the completed report says success; wherever an error is caught the
\* variable is left unset.
C30_DidCompleteOnlyOnSuccess ==
  \A p \in Procs :
    LET s == st[p]
    IN /\ s.didComplete =>
            /\ s.stage = "analyze"
            /\ s.err = NoErr
            /\ ~Failed(s)
            /\ \A i \in DOMAIN s.reports :
                 IsCompleted(s.reports[i]) => s.reports[i].status = "success"
       /\ s.err # NoErr => ~s.didComplete

\* Analyze ran in test mode with expect-error "true" and no step threw: the
\* job was marked failed, and ANALYZE_DID_COMPLETE_SUCCESSFULLY was exported.
C30_DidCompleteAlthoughMarkedFailed ==
  \E p \in Procs :
    LET s == st[p]
    IN /\ s.stage = "analyze" /\ Ended(s)
       /\ s.testMode /\ s.expectError = "true"
       /\ s.err = NoErr
       /\ s.setFailedCalls = <<NotThrownMessage>>
       /\ s.didComplete

----------------------------------------------------------------------------
(* analyze-action.ts: what is uploaded and waited for *)

\* C31: in Analyze the results are uploaded only if the queries ran in this
\* invocation (skip-queries is not "true") and the upload input resolves to
\* "always"; the sarif-id output is set only when an upload returned; and
\* waitForProcessing is called only if an upload returned, test mode is off
\* and wait-for-processing is "true".
C31_UploadAndWaitGuards ==
  \A p \in Procs :
    LET s == st[p]
        uploadCalled == W("upload", "-") \in s.work \/ s.thrownAt = "analyze_upload"
        waitCalled == W("waitForProcessing", "-") \in s.work \/ s.thrownAt = "analyze_wait"
    IN s.stage = "analyze" =>
         /\ uploadCalled =>
              /\ s.skipQueries = "false"
              /\ s.runStats.defined
              /\ s.upload = "always"
         /\ "sarif-id" \in s.outputs <=> s.uploadResult
         /\ s.uploadResult => W("upload", "-") \in s.work
         /\ waitCalled =>
              /\ s.uploadResult
              /\ ~s.testMode
              /\ s.waitForProcessing = "true"

\* Analyze ran its queries, uploaded with upload "always", set sarif-id and,
\* outside test mode with wait-for-processing "true", waited for processing.
C31_UploadedAndWaited ==
  \E p \in Procs :
    LET s == st[p]
    IN /\ s.stage = "analyze" /\ Ended(s)
       /\ s.skipQueries = "false" /\ s.upload = "always"
       /\ W("upload", "-") \in s.work
       /\ "sarif-id" \in s.outputs
       /\ W("waitForProcessing", "-") \in s.work
       /\ ~s.testMode /\ s.waitForProcessing = "true"

----------------------------------------------------------------------------
(* The order of the steps of Analyze *)

\* The query run has begun: a language was analysed, or runQueries threw or
\* returned.
QueriesBegun(s) ==
  \/ Processed(s, "queries") # {}
  \/ s.thrownAt \in {"analyze_queries", "lib_queries"}
  \/ s.runStats.defined

\* The database of every language of the Config is finalized.
FinalizedAll(s) ==
  {W("finalize", l) : l \in Range(s.config.languages)} \subseteq s.work

\* Every scanned language of the Config was extracted.
ExtractedAll(s) ==
  \A l \in Range(s.config.languages) :
    isScannedLanguage(l) => W("extract", l) \in s.work

\* The result upload has begun: it returned or threw.
UploadBegun(s) ==
  W("upload", "-") \in s.work \/ s.thrownAt \in {"analyze_upload", "lib_upload"}

\* waitForProcessing was invoked: it returned or threw.
WaitBegun(s) ==
  W("waitForProcessing", "-") \in s.work \/ s.thrownAt = "analyze_wait"

\* C32: the steps of Analyze are strictly ordered. A step in which the query
\* run begins starts from a state in which the database of every language is
\* finalized (in lib/analyze-action.js also every scanned language extracted);
\* a step in which the result upload begins starts from a state in which the
\* query run has returned; a step in which waitForProcessing is invoked starts
\* from a state in which the database upload and the TRAP-cache upload have
\* returned.
C32_AnalyzeStepsOrdered ==
  [][\A p \in Procs :
       LET s == st[p]
           t == st'[p]
       IN t.stage \in {"analyze", "analyze_lib"} =>
            /\ (QueriesBegun(t) /\ ~QueriesBegun(s)) =>
                 /\ s.stage = t.stage
                 /\ FinalizedAll(s)
                 /\ t.stage = "analyze_lib" => ExtractedAll(s)
            /\ (UploadBegun(t) /\ ~UploadBegun(s)) =>
                 /\ s.stage = t.stage
                 /\ s.runStats.defined
            /\ (WaitBegun(t) /\ ~WaitBegun(s)) =>
                 /\ s.stage = t.stage
                 /\ UploadBegun(s)
                 /\ W("uploadDatabases", "-") \in s.work
                 /\ W("uploadTrapCaches", "-") \in s.work]_vars

\* An Analyze invocation over two languages or more that finalized, queried,
\* uploaded the results, the databases and the TRAP caches, and waited.
C32_AllAnalyzeStepsRan ==
  \E p \in Procs :
    LET s == st[p]
    IN /\ s.stage = "analyze" /\ Ended(s)
       /\ Len(s.config.languages) >= 2
       /\ FinalizedAll(s)
       /\ Processed(s, "queries") = Range(s.config.languages)
       /\ {W("upload", "-"), W("uploadDatabases", "-"), W("uploadTrapCaches", "-"),
           W("waitForProcessing", "-")} \subseteq s.work

----------------------------------------------------------------------------
(* lib/analyze-action.js: a language without queries *)

\* The languages of the list before the language.
LanguagesBefore(languages, language) ==
  {languages[j] : j \in {i \in DOMAIN languages :
                           \E k \in DOMAIN languages : k > i /\ languages[k] = language}}

\* The first language of the Config whose query list is empty, "none" if
\* there is none.
FirstWithoutQueries(config) ==
  IF \E i \in DOMAIN config.languages : config.languages[i] \in config.emptyQueries
    THEN config.languages[CHOOSE i \in DOMAIN config.languages :
                            /\ config.languages[i] \in config.emptyQueries
                            /\ \A j \in 1..(i - 1) :
                                 config.languages[j] \notin config.emptyQueries]
    ELSE "none"

\* The query loop of the invocation got to a language without queries.
ReachedLanguageWithoutQueries(s) ==
  /\ s.stage = "analyze_lib"
  /\ s.config.defined
  /\ FirstWithoutQueries(s.config) # "none"
  /\ \/ s.thrownAt = "lib_queries"
     \/ s.pc \in {"lib_upload", "lib_completed"}
     \/ s.runStats.defined
  /\ s.runStats.failure \notin LanguagesBefore(s.config.languages,
                                               FirstWithoutQueries(s.config))

----------------------------------------------------------------------------
(* autobuild-action.ts: the language that failed *)

\* The build of a language threw.
BuildThrew(s) == s.stage = "autobuild" /\ s.thrownAt = "autobuild_build"

\* C34: Autobuild builds the languages in list order and the first build that
\* throws stops the loop. The autobuild_failure of a completed report is set
\* only when an error was thrown while the build of a language was in
\* progress; it is then exactly that language and one of the reported
\* autobuild_languages. An error thrown before the loop yields a report
\* without autobuild_failure.
C34_AutobuildFailureLanguage ==
  \A p \in Procs :
    LET s == st[p]
    IN s.stage = "autobuild" =>
         /\ InListOrder(s, "autobuild", s.languages, Range(LangOrder))
         /\ BuildThrew(s) =>
              /\ s.err # NoErr
              /\ s.pc \in {"autobuild_catch", "returned", "done"}
              /\ s.currentLanguage = s.languages[s.idx]
              /\ Processed(s, "autobuild") = FirstLanguages(s.languages, s.idx - 1)
         /\ \A i \in DOMAIN Completed(s) :
              LET r == Completed(s)[i]
              IN /\ r.failure_language # "none" <=> BuildThrew(s)
                 /\ BuildThrew(s) =>
                      /\ r.failure_language = s.languages[s.idx]
                      /\ r.failure_language \in Range(r.languages)
                      /\ W("autobuild", r.failure_language) \notin s.work
                 /\ (s.err # NoErr /\ ~BuildThrew(s)) =>
                      /\ r.failure_language = "none"
                      /\ s.work = {}

\* An Autobuild whose second build threw: the first language was built, the
\* completed report names the second as autobuild_failure.
C34_SecondBuildThrew ==
  \E p \in Procs :
    LET s == st[p]
    IN /\ BuildThrew(s) /\ Ended(s)
       /\ Len(s.languages) >= 2 /\ s.idx = 2
       /\ Processed(s, "autobuild") = {s.languages[1]}
       /\ Len(Completed(s)) = 1
       /\ Completed(s)[1].failure_language = s.languages[2]

----------------------------------------------------------------------------
(* The error handlers of init-action.ts, autobuild-action.ts and
   analyze-action.ts, statement by statement *)

\* A handler that would build and send its report before marking the job
\* failed.
HandlerReportsFirst == <<"build", "send", "setFailed">>

\* The statements of a handler, in the order of the source: core.setFailed,
\* then the report is built (checkDiskUsage, createStatusReportBase), then it
\* is sent.
HandlerOrder == <<"setFailed", "build", "send">>

\* The catch blocks of each stage.
HandlersOf(stage) ==
  CASE stage = "init" -> {"init_catch1", "init_catch2"}
    [] stage = "autobuild" -> {"autobuild_catch"}
    [] OTHER -> {"analyze_catch"}

Handlers == UNION {HandlersOf(stage) : stage \in EntryPoints}

\* Whether the handler of the invocation calls core.setFailed: Analyze's does
\* so under a condition, the others always.
HandlerSetsFailed(s) == s.stage = "analyze" => AnalyzeCatchSetsFailed(s)

\* The prefix the handler gives the message.
HandlerPrefix(s) == IF s.stage = "autobuild" THEN AutobuildPrefix ELSE ""

\* The report the handler builds.
HandlerReport(s) ==
  CASE s.pc = "init_catch1" ->
         createStatusReportBase("init", InitFirstPhaseStatus(s.err), checkDiskUsage,
                                s.env, s.err)
    [] s.pc = "init_catch2" -> initSendCompletedStatusReport(s, s.err)
    [] s.pc = "autobuild_catch" ->
         autobuildSendCompletedStatusReport(s, s.languages, s.currentLanguage, s.err)
    [] OTHER -> analyzeSendStatusReport(s, AnalyzeCatchStats(s, s.err), s.err)

\* The Configs a handler can find: the second catch block of Init is reached
\* only with a Config.
HandlerConfigs(handler) ==
  {c \in ConfigSet : c.emptyQueries = {} /\ Len(c.languages) = 1}
    \cup (IF handler = "init_catch2" THEN {} ELSE {NoConfig})

\* An invocation whose try block has just thrown.
InitHandlers ==
  /\ \E stage \in EntryPoints :
       \E handler \in HandlersOf(stage), k \in ThrowKinds,
          ee \in ExpectErrorValues(stage), tm \in TestModes(stage) :
        \E c \in HandlerConfigs(handler) :
         st = [p \in Procs |->
                 IF p = 1
                   THEN [NewInvocation(stage, ee, tm, [uuid |-> 1, didAutobuildGo |-> FALSE])
                           EXCEPT !.pc = handler, !.err = StepError(k),
                                  !.thrownAt = "try", !.config = c,
                                  !.configRead = c.defined, !.idx = 1]
                   ELSE Idle]
  /\ configStore = NoFile
  /\ jobEnv = [uuid |-> 1, didAutobuildGo |-> FALSE]
  /\ sink = {}
  /\ nextUuid = 2
  /\ nInv = 1
  /\ disk = "enough"
  /\ call = NoCall
  /\ features = NoFeatures
  /\ uploader = NoUploader

\* The handler is at the statement.
HandlerAt(s, statement) ==
  /\ s.pc \in Handlers
  /\ s.idx \in DOMAIN HandlerOrder
  /\ HandlerOrder[s.idx] = statement

\* The statement after the current one; the return after the last.
HandlerNext(s) ==
  IF s.idx = Len(HandlerOrder)
    THEN [s EXCEPT !.idx = 1, !.pc = "returned"]
    ELSE [s EXCEPT !.idx = @ + 1]

\* core.setFailed(error.message), under Analyze's condition.
HandlerSetFailed(p) ==
  LET s == st[p]
  IN /\ HandlerAt(s, "setFailed")
     /\ Set(p, HandlerNext(IF HandlerSetsFailed(s)
                             THEN setFailed(s, HandlerPrefix(s), s.err.msg)
                             ELSE s))
     /\ UNCHANGED <<configStore, jobEnv, sink, nextUuid, nInv, disk, call, features, uploader>>

\* What building or sending the report can end in besides returning: a throw,
\* which rejects run(), or a promise that never settles.
HandlerBroke(p) ==
  LET s == st[p]
  IN \/ \E k \in ThrowKinds : Set(p, [s EXCEPT !.err = StepError(k), !.pc = "rejected"])
     \/ Set(p, [s EXCEPT !.pc = "hung"])

\* The report is built.
HandlerBuild(p) ==
  LET s == st[p]
  IN /\ HandlerAt(s, "build")
     /\ \/ HandlerBroke(p)
        \/ Set(p, HandlerNext(s))
     /\ UNCHANGED <<configStore, jobEnv, sink, nextUuid, nInv, disk, call, features, uploader>>

\* The report is sent.
HandlerSend(p) ==
  LET s == st[p]
  IN /\ HandlerAt(s, "send")
     /\ \/ HandlerBroke(p)
        \/ \E delivered \in BOOLEAN :
             Set(p, HandlerNext(Sent(s, HandlerReport(s), delivered)))
     /\ UNCHANGED <<configStore, jobEnv, sink, nextUuid, nInv, disk, call, features, uploader>>

NextHandlers ==
  \E p \in Procs :
    \/ HandlerSetFailed(p)
    \/ HandlerBuild(p)
    \/ HandlerSend(p)
    \/ runWrapper(p)

SpecHandlers == InitHandlers /\ [][NextHandlers]_vars

\* The invocation was in a handler that marks the job failed.
InFailingHandler(s) == s.stage \in EntryPoints /\ HandlerSetsFailed(s)

\* C35: a handler of Init, Autobuild or Analyze that marks the job failed has
\* called core.setFailed with the caught error's message before it builds or
\* sends the failure report: a step in which the report is handed over, or in
\* which building or sending it throws or hangs, starts from a state in which
\* the job is marked failed; and no invocation is left hung or ended with the
\* job not marked failed.
C35_SetFailedBeforeFailureReport ==
  /\ [][\A p \in Procs :
          LET s == st[p]
              t == st'[p]
          IN (/\ s.pc \in Handlers /\ InFailingHandler(s)
              /\ \/ Len(t.reports) > Len(s.reports)
                 \/ t.pc \in {"rejected", "hung"}) =>
               /\ Failed(s)
               /\ s.setFailedCalls[1] = [prefix |-> HandlerPrefix(s), msg |-> s.err.msg]]_vars
  /\ [](\A p \in Procs :
          (InFailingHandler(st[p]) /\ st[p].pc \in {"hung", "returned", "done"}) =>
            Failed(st[p]))

\* The report of a handler never got built: the promise hung after the
\* handler had marked the job failed, no completed report was handed over.
C35_HungAfterSetFailed ==
  \E p \in Procs :
    LET s == st[p]
    IN /\ InFailingHandler(s) /\ s.pc = "hung"
       /\ s.reports = <<>>
       /\ Failed(s)

----------------------------------------------------------------------------
(* analyze-action.ts: runAutobuildIfLegacyGoWorkflow on its own *)

\* A file name is the sequence of its parts between the dots: "a.trap.gz" is
\* <<"a", "trap", "gz">>, ".trap" is <<"", "trap">>.  An extension is the
\* sequence of its parts after the leading dot.
endsWith(fileName, ext) ==
  /\ Len(fileName) > Len(ext)
  /\ SubSeq(fileName, Len(fileName) - Len(ext) + 1, Len(fileName)) = ext

\* The extensions doesGoExtractionOutputExist looks for.
TrapExtensions ==
  {<<"trap">>, <<"trap", "gz">>, <<"trap", "br">>, <<"trap", "tar", "gz">>,
   <<"trap", "tar", "br">>, <<"trap", "tar">>}

\* A check that would be content with the TRAP directory being there.
GoTrapDirectoryExists(trapDirectory) == trapDirectory.exists

\* doesGoExtractionOutputExist(config): the TRAP directory of the Go database
\* exists and holds a file with one of the extensions.
doesGoExtractionOutputExist(trapDirectory) ==
  /\ trapDirectory.exists
  /\ \E fileName \in trapDirectory.files :
       \E ext \in TrapExtensions : endsWith(fileName, ext)

\* File names the TRAP directory is tried with.
GoFileNames ==
  {<<"a", "trap">>, <<"a", "trap", "gz">>, <<"a", "trap", "br">>,
   <<"a", "trap", "tar", "gz">>, <<"a", "trap", "tar", "br">>, <<"a", "trap", "tar">>,
   <<"a", "go">>, <<"trap">>, <<"a", "trap", "zip">>, <<"a", "tar", "gz">>,
   <<"a", "trap", "gz", "bak">>}

MaxTrapFiles == 2

\* The TRAP directory: missing, or holding some files.
TrapDirectories ==
  {[exists |-> FALSE, files |-> {}]}
    \cup {[exists |-> TRUE, files |-> fs] :
            fs \in {x \in SUBSET GoFileNames : Cardinality(x) <= MaxTrapFiles}}

\* The values of the DID_AUTOBUILD_GOLANG environment variable.
DidAutobuildGolangValues == {"unset", "true", "false"}

\* The Configs the function is tried with.
GoConfigs == {c \in ConfigSet : c.emptyQueries = {} /\ Len(c.languages) <= 2}

\* A call of runAutobuildIfLegacyGoWorkflow(config, logger) that has not run yet.
InitGoAutobuild ==
  /\ st = [p \in Procs |-> Idle]
  /\ configStore = NoFile
  /\ jobEnv = [uuid |-> 0, didAutobuildGo |-> FALSE]
  /\ sink = {}
  /\ nextUuid = 1
  /\ nInv = 0
  /\ disk = "enough"
  /\ features = NoFeatures
  /\ uploader = NoUploader
  /\ \E config \in GoConfigs, didAutobuildGolang \in DidAutobuildGolangValues,
        dbFinalized \in BOOLEAN, trapDirectory \in TrapDirectories :
       call = [fn |-> "runAutobuildIfLegacyGoWorkflow",
               config |-> config,
               didAutobuildGolang |-> didAutobuildGolang,
               dbFinalized |-> dbFinalized,
               trapDirectory |-> trapDirectory,
               returned |-> FALSE,
               built |-> {}]

\* The call runs: the four checks, then runAutobuild(Language.go).
runAutobuildIfLegacyGoWorkflow ==
  /\ call.fn = "runAutobuildIfLegacyGoWorkflow"
  /\ ~call.returned
  /\ call' = [call EXCEPT
                !.returned = TRUE,
                !.built = IF ShouldAutobuildGo(call.config,
                                               call.didAutobuildGolang = "true",
                                               call.dbFinalized,
                                               doesGoExtractionOutputExist(call.trapDirectory))
                            THEN {"go"}
                            ELSE {}]
  /\ UNCHANGED <<st, configStore, jobEnv, sink, nextUuid, nInv, disk, features, uploader>>

SpecGoAutobuild == InitGoAutobuild /\ [][runAutobuildIfLegacyGoWorkflow]_vars

\* The file names that are TRAP files: those ending in .trap, .trap.gz,
\* .trap.br, .trap.tar.gz, .trap.tar.br or .trap.tar.
TrapFileNames ==
  {<<"a", "trap">>, <<"a", "trap", "gz">>, <<"a", "trap", "br">>,
   <<"a", "trap", "tar", "gz">>, <<"a", "trap", "tar", "br">>, <<"a", "trap", "tar">>}

\* C36: runAutobuildIfLegacyGoWorkflow runs the Go autobuild if and only if go
\* is among config.languages, DID_AUTOBUILD_GOLANG is not "true", the Go
\* database is not finalized and the TRAP directory of the Go database holds
\* no TRAP file; in every other case it returns without running any build.
C36_GoAutobuildIff ==
  (call.fn = "runAutobuildIfLegacyGoWorkflow" /\ call.returned) =>
    /\ call.built \in {{}, {"go"}}
    /\ call.built = {"go"} <=>
         /\ "go" \in Range(call.config.languages)
         /\ call.didAutobuildGolang # "true"
         /\ ~call.dbFinalized
         /\ ~(call.trapDirectory.exists
              /\ call.trapDirectory.files \cap TrapFileNames # {})

\* The Go autobuild ran although the TRAP directory exists and holds files:
\* none of them is a TRAP file.
C36_GoBuiltBesideOtherFiles ==
  /\ call.fn = "runAutobuildIfLegacyGoWorkflow" /\ call.returned
  /\ call.built = {"go"}
  /\ call.didAutobuildGolang = "false"
  /\ call.trapDirectory.exists
  /\ call.trapDirectory.files = {<<"a", "trap", "zip">>, <<"a", "trap", "gz", "bak">>}

----------------------------------------------------------------------------
(* init-action.ts: the Config of the completed report *)

\* The steps of Init from which sendCompletedStatusReport is reached: the
\* second try block, its catch block, and the end of run().
AfterFirstPhase == {"init_phase2", "init_catch2", "init_completed"}

\* C37: whenever Init's sendCompletedStatusReport is called, config is
\* defined. Both call sites are reached only after configuration
\* initialisation succeeded, so every report it sends carries the
\* config-dependent fields: the config === undefined branch is never taken.
C37_InitCompletedReportHasConfig ==
  \A p \in Procs :
    LET s == st[p]
    IN s.stage = "init" =>
         /\ s.pc \in AfterFirstPhase =>
              /\ s.config.defined
              /\ ConfigInitialised(s)
              /\ initSendCompletedStatusReport(s, s.err).withConfig
         /\ ~FailedInFirstPhase(s) =>
              \A i \in DOMAIN Completed(s) :
                /\ ConfigInitialised(s)
                /\ Completed(s)[i].withConfig
                /\ Completed(s)[i].languages = s.config.languages

\* An Init whose second try block threw after the Config was initialised:
\* the completed report of its catch block carries the languages of the
\* Config.
C37_SecondCatchReportedConfig ==
  \E p \in Procs :
    LET s == st[p]
    IN /\ s.stage = "init" /\ Ended(s)
       /\ s.thrownAt = "init_phase2"
       /\ Len(Completed(s)) = 1
       /\ Completed(s)[1].withConfig
       /\ Completed(s)[1].languages = s.config.languages
       /\ Len(s.config.languages) >= 2

====
